---- MODULE Spec2Model ----
(***************************************************************************)
(* Model of the magnolia-resourcespace client: query building and signing, *)
(* the transport core (makeRequest), the users capability (createUser,     *)
(* saveUser) and the batch capability, together with the remote            *)
(* ResourceSpace service they talk to.                                     *)
(*                                                                         *)
(* A JavaScript string is a sequence of tokens.  A token is either one     *)
(* character that the form-urlencoded serializer rewrites ("&", "=", " ",  *)
(* "{", ...) or a maximal run of characters it leaves alone ("function",   *)
(* "new_user", "42").  Concatenation is \o, so prefixes, suffixes and the  *)
(* order of the parameters are what they are in the program.               *)
(***************************************************************************)
EXTENDS Integers, Sequences, FiniteSets, TLC

(***************************************************************************)
(* JavaScript values                                                       *)
(***************************************************************************)
Undef == [t |-> "undefined"]
Null == [t |-> "null"]
NaN == [t |-> "NaN"]
S(s) == [t |-> "string", v |-> s]
N(n) == [t |-> "number", v |-> n]
B(b) == [t |-> "boolean", v |-> b]
\* an object is its list of own enumerable entries <<key, value>>, in insertion order
Obj(entries) == [t |-> "object", v |-> entries]
Arr(items) == [t |-> "array", v |-> items]

IsNullish(x) == x.t \in {"undefined", "null"}

\* a === b for primitive values
StrictEquals(a, b) == a.t = b.t /\ a.t # "NaN" /\ a = b

\* obj[key], undefined when the key is absent
Get(entries, key) ==
  IF \E i \in 1..Len(entries) : entries[i][1] = key
  THEN entries[CHOOSE i \in 1..Len(entries) : entries[i][1] = key][2]
  ELSE Undef

Has(entries, key) == \E i \in 1..Len(entries) : entries[i][1] = key

Keys(entries) == {entries[i][1] : i \in 1..Len(entries)}

\* obj[key] = value: an existing key keeps its position, a new key goes last
Put(entries, key, value) ==
  IF Has(entries, key)
  THEN [i \in 1..Len(entries) |->
          IF entries[i][1] = key THEN <<key, value>> ELSE entries[i]]
  ELSE Append(entries, <<key, value>>)

\* { ...a, ...b }
RECURSIVE Spread(_, _)
Spread(a, b) == IF b = <<>> THEN a ELSE Spread(Put(a, Head(b)[1], Head(b)[2]), Tail(b))

\* String(value) for the values a parameter map can hold
String(x) ==
  CASE x.t = "string" -> x.v
    [] x.t = "number" -> <<ToString(x.v)>>
    [] x.t = "boolean" -> IF x.v THEN <<"true">> ELSE <<"false">>
    [] x.t = "null" -> <<"null">>
    [] x.t = "undefined" -> <<"undefined">>
    [] x.t = "NaN" -> <<"NaN">>
    [] x.t = "object" -> <<"[object Object]">>

\* JavaScript truthiness
Truthy(x) ==
  CASE x.t = "string" -> x.v # <<>>
    [] x.t = "number" -> x.v # 0
    [] x.t = "boolean" -> x.v
    [] x.t \in {"null", "undefined", "NaN"} -> FALSE
    [] OTHER -> TRUE

(***************************************************************************)
(* application/x-www-form-urlencoded, as URLSearchParams.toString() writes *)
(* it and as the remote service reads it back                              *)
(***************************************************************************)
PercentEncoded ==
  [c \in {" ", "&", "=", "+", "%", "{", "}", "[", "]", "\"", ":", ",", "\\", "@", "/", "?",
          "\\\"", "\\\\"} |->
     CASE c = " " -> "+"
       [] c = "&" -> "%26"
       [] c = "=" -> "%3D"
       [] c = "+" -> "%2B"
       [] c = "%" -> "%25"
       [] c = "{" -> "%7B"
       [] c = "}" -> "%7D"
       [] c = "\"" -> "%22"
       [] c = ":" -> "%3A"
       [] c = "," -> "%2C"
       [] c = "\\" -> "%5C"
       [] c = "@" -> "%40"
       [] c = "[" -> "%5B"
       [] c = "]" -> "%5D"
       [] c = "/" -> "%2F"
       [] c = "?" -> "%3F"
       [] c = "\\\"" -> "%5C%22"
       [] c = "\\\\" -> "%5C%5C"]

urlencode(s) ==
  [i \in 1..Len(s) |-> IF s[i] \in DOMAIN PercentEncoded THEN PercentEncoded[s[i]] ELSE s[i]]

urldecode(s) ==
  [i \in 1..Len(s) |->
     IF \E c \in DOMAIN PercentEncoded : PercentEncoded[c] = s[i]
     THEN CHOOSE c \in DOMAIN PercentEncoded : PercentEncoded[c] = s[i]
     ELSE s[i]]

\* URLSearchParams.toString(): name=value pairs joined by "&"
RECURSIVE serialize(_)
serialize(pairs) ==
  IF pairs = <<>> THEN <<>>
  ELSE urlencode(Head(pairs)[1]) \o <<"=">> \o urlencode(Head(pairs)[2])
       \o (IF Tail(pairs) = <<>> THEN <<>> ELSE <<"&">> \o serialize(Tail(pairs)))

\* the text before the first occurrence of sep, and the text after it
Before(s, sep) ==
  IF \E i \in 1..Len(s) : s[i] = sep
  THEN SubSeq(s, 1, (CHOOSE i \in 1..Len(s) : s[i] = sep /\ \A j \in 1..(i-1) : s[j] # sep) - 1)
  ELSE s

After(s, sep) ==
  IF \E i \in 1..Len(s) : s[i] = sep
  THEN SubSeq(s, (CHOOSE i \in 1..Len(s) : s[i] = sep /\ \A j \in 1..(i-1) : s[j] # sep) + 1, Len(s))
  ELSE <<>>

\* the remote side's reading of a query string: the list of <<name, value>>
RECURSIVE parseQuery(_)
parseQuery(q) ==
  IF q = <<>> THEN <<>>
  ELSE <<<<urldecode(Before(Before(q, "&"), "=")), urldecode(After(Before(q, "&"), "="))>>>>
       \o parseQuery(After(q, "&"))

(***************************************************************************)
(* utils/signature.ts, utils/query-builder.ts                              *)
(***************************************************************************)
\* SHA256(secret + queryString): the digest stands for the text it was taken of
generateSignature(secret, queryString) == <<"sha256", secret \o queryString>>

\* variant: a value is appended only when it is truthy
appendParams_truthy(qs, entries) ==
  LET kept == SelectSeq(entries, LAMBDA e : Truthy(e[2]))
  IN qs \o [i \in 1..Len(kept) |-> <<kept[i][1], String(kept[i][2])>>]
RECURSIVE appendParams(_, _)
appendParams(qs, entries) ==
  IF entries = <<>> THEN qs
  ELSE appendParams(
         IF ~IsNullish(Head(entries)[2])
         THEN Append(qs, <<Head(entries)[1], String(Head(entries)[2])>>)
         ELSE qs,
         Tail(entries))

buildQueryString(user, params) ==
  serialize(appendParams(<<<< <<"user">>, user >>>>, params))

\* variant: the signature is taken of the query as it is transmitted
buildSignedQuery_signTransmitted(user, secret, authMode, functionName, params) ==
  LET allParams == Spread(<<<< <<"function">>, S(functionName) >>>>, params)
      queryForSignature == buildQueryString(user, allParams)
      query == IF authMode = "sessionKey"
               THEN queryForSignature \o <<"&", "authmode", "=", "sessionkey">>
               ELSE queryForSignature
  IN [query |-> query, sign |-> generateSignature(secret, query)]
buildSignedQuery(user, secret, authMode, functionName, params) ==
  LET allParams == Spread(<<<< <<"function">>, S(functionName) >>>>, params)
      queryForSignature == buildQueryString(user, allParams)
      sign == generateSignature(secret, queryForSignature)
      query == IF authMode = "sessionKey"
               THEN queryForSignature \o <<"&", "authmode", "=", "sessionkey">>
               ELSE queryForSignature
  IN [query |-> query, sign |-> sign]

(***************************************************************************)
(* JSON.stringify and JSON.parse over the token representation             *)
(***************************************************************************)
\* the decimal numerals the model reads back as numbers
MaxNumeral == 110
NumeralOf == [tok \in {ToString(n) : n \in -1..MaxNumeral} |->
                CHOOSE n \in -1..MaxNumeral : ToString(n) = tok]
IsNumeral(tok) == tok \in DOMAIN NumeralOf

\* inside a JSON string literal a quote and a backslash are written escaped
jsonEscape(s) ==
  [i \in 1..Len(s) |-> CASE s[i] = "\"" -> "\\\"" [] s[i] = "\\" -> "\\\\" [] OTHER -> s[i]]
jsonUnescape(s) ==
  [i \in 1..Len(s) |-> CASE s[i] = "\\\"" -> "\"" [] s[i] = "\\\\" -> "\\" [] OTHER -> s[i]]

RECURSIVE JSONstringify(_)
RECURSIVE stringifyEntries(_, _)
RECURSIVE stringifyItems(_, _)
JSONstringify(x) ==
  CASE x.t = "string" -> <<"\"">> \o jsonEscape(x.v) \o <<"\"">>
    [] x.t = "number" -> <<ToString(x.v)>>
    [] x.t = "boolean" -> IF x.v THEN <<"true">> ELSE <<"false">>
    [] x.t \in {"null", "NaN"} -> <<"null">>
    [] x.t = "object" -> <<"{">> \o stringifyEntries(x.v, TRUE) \o <<"}">>
    [] x.t = "array" -> <<"[">> \o stringifyItems(x.v, TRUE) \o <<"]">>
\* entries whose value is undefined are left out of the text
stringifyEntries(entries, first) ==
  IF entries = <<>> THEN <<>>
  ELSE IF Head(entries)[2].t = "undefined" THEN stringifyEntries(Tail(entries), first)
  ELSE (IF first THEN <<>> ELSE <<",">>)
       \o <<"\"">> \o jsonEscape(Head(entries)[1]) \o <<"\"", ":">>
       \o JSONstringify(Head(entries)[2])
       \o stringifyEntries(Tail(entries), FALSE)
stringifyItems(items, first) ==
  IF items = <<>> THEN <<>>
  ELSE (IF first THEN <<>> ELSE <<",">>)
       \o (IF Head(items).t = "undefined" THEN <<"null">> ELSE JSONstringify(Head(items)))
       \o stringifyItems(Tail(items), FALSE)

RECURSIVE skipWs(_)
skipWs(toks) == IF toks # <<>> /\ Head(toks) = " " THEN skipWs(Tail(toks)) ELSE toks

ParseFail == [ok |-> FALSE, val |-> Undef, rest |-> <<>>]
ParseOk(val, rest) == [ok |-> TRUE, val |-> val, rest |-> skipWs(rest)]

\* a string literal: the tokens up to the closing quote
parseString(toks) ==
  LET body == Tail(toks)
  IN IF \E i \in 1..Len(body) : body[i] = "\""
     THEN ParseOk(S(jsonUnescape(Before(body, "\""))), After(body, "\""))
     ELSE ParseFail

RECURSIVE parseValue(_)
RECURSIVE parseMembers(_, _)
RECURSIVE parseElements(_, _)
parseValue(input) ==
  LET toks == skipWs(input)
  IN IF toks = <<>> THEN ParseFail
     ELSE CASE Head(toks) = "\"" -> parseString(toks)
            [] Head(toks) = "{" ->
                 IF skipWs(Tail(toks)) # <<>> /\ Head(skipWs(Tail(toks))) = "}"
                 THEN ParseOk(Obj(<<>>), Tail(skipWs(Tail(toks))))
                 ELSE parseMembers(<<>>, Tail(toks))
            [] Head(toks) = "[" ->
                 IF skipWs(Tail(toks)) # <<>> /\ Head(skipWs(Tail(toks))) = "]"
                 THEN ParseOk(Arr(<<>>), Tail(skipWs(Tail(toks))))
                 ELSE parseElements(<<>>, Tail(toks))
            [] Head(toks) = "true" -> ParseOk(B(TRUE), Tail(toks))
            [] Head(toks) = "false" -> ParseOk(B(FALSE), Tail(toks))
            [] Head(toks) = "null" -> ParseOk(Null, Tail(toks))
            [] IsNumeral(Head(toks)) -> ParseOk(N(NumeralOf[Head(toks)]), Tail(toks))
            [] OTHER -> ParseFail
\* "key": value pairs up to the closing brace; a repeated key keeps its last value
parseMembers(acc, input) ==
  LET toks == skipWs(input)
      key == IF toks # <<>> /\ Head(toks) = "\"" THEN parseString(toks) ELSE ParseFail
      val == IF key.ok /\ key.rest # <<>> /\ Head(key.rest) = ":"
             THEN parseValue(Tail(key.rest)) ELSE ParseFail
  IN IF ~val.ok \/ val.rest = <<>> THEN ParseFail
     ELSE CASE Head(val.rest) = "}" -> ParseOk(Obj(Put(acc, key.val.v, val.val)), Tail(val.rest))
            [] Head(val.rest) = "," -> parseMembers(Put(acc, key.val.v, val.val), Tail(val.rest))
            [] OTHER -> ParseFail
parseElements(acc, input) ==
  LET val == parseValue(input)
  IN IF ~val.ok \/ val.rest = <<>> THEN ParseFail
     ELSE CASE Head(val.rest) = "]" -> ParseOk(Arr(Append(acc, val.val)), Tail(val.rest))
            [] Head(val.rest) = "," -> parseElements(Append(acc, val.val), Tail(val.rest))
            [] OTHER -> ParseFail

\* JSON.parse(text): the value, or a SyntaxError (ok = FALSE)
JSONparse(text) ==
  LET r == parseValue(text)
  IN IF r.ok /\ r.rest = <<>> THEN [ok |-> TRUE, val |-> r.val] ELSE [ok |-> FALSE, val |-> Undef]

(***************************************************************************)
(* core/errors.ts                                                          *)
(***************************************************************************)
\* message texts are kept as chunks: the fixed wording is one token
ResourceSpaceError(message, functionName, statusCode, rsError, cause) ==
  [name |-> "ResourceSpaceError", message |-> message, functionName |-> functionName,
   statusCode |-> statusCode, rsError |-> rsError, cause |-> cause]

PermissionError(functionName, detail) ==
  [name |-> "PermissionError",
   message |-> <<"Permission denied for ">> \o functionName
               \o (IF Truthy(detail) THEN <<": ">> \o detail.v ELSE <<>>),
   functionName |-> functionName, statusCode |-> Undef, rsError |-> Undef, cause |-> Undef]

SecurityError(message) == [name |-> "SecurityError", message |-> message]
BatchSizeLimitError(actual, max) ==
  [name |-> "BatchSizeLimitError",
   message |-> <<"Batch size ", ToString(actual), " exceeds maximum ", ToString(max)>>]
ValidationError(message) == [name |-> "ValidationError", message |-> message]
Error(message) == [name |-> "Error", message |-> message]

\* error instanceof ResourceSpaceError
IsResourceSpaceError(e) == e.name \in {"ResourceSpaceError", "PermissionError"}

Returned(value) == [threw |-> FALSE, value |-> value, error |-> Undef]
Thrown(error) == [threw |-> TRUE, value |-> Undef, error |-> error]

\* Number.isInteger(value) && value > 0, else ValidationError
validateId(value, name) ==
  IF value.t = "number" /\ value.v > 0 THEN Returned(Undef)
  ELSE Thrown(ValidationError(name \o <<" must be a positive integer, got: ">> \o String(value)))

(***************************************************************************)
(* utils/response.ts                                                       *)
(***************************************************************************)
\* words of the model's texts that are not already lower case
LowerCaseOf ==
  [tok \in {"Error", "ERROR", "Permission", "Access", "Denied", "Internal", "Server", "Not", "Found"} |->
     CASE tok \in {"Error", "ERROR"} -> "error"
       [] tok = "Permission" -> "permission"
       [] tok = "Access" -> "access"
       [] tok = "Denied" -> "denied"
       [] tok = "Internal" -> "internal"
       [] tok = "Server" -> "server"
       [] tok = "Not" -> "not"
       [] tok = "Found" -> "found"]
toLowerCase(s) ==
  [i \in 1..Len(s) |-> IF s[i] \in DOMAIN LowerCaseOf THEN LowerCaseOf[s[i]] ELSE s[i]]

\* words of the model's texts that begin or end with another word
LongerWords == {<<"errors", "error", "prefix">>, <<"error_code", "error", "prefix">>,
                <<"denied.", "denied", "prefix">>, <<"noerror", "error", "suffix">>}
wordStartsWith(tok, w) == tok = w \/ <<tok, w, "prefix">> \in LongerWords
wordEndsWith(tok, w) == tok = w \/ <<tok, w, "suffix">> \in LongerWords

\* text.includes("<w1> <w2>")
includesPhrase(s, w1, w2) ==
  \E i \in 1..(Len(s) - 2) :
    wordEndsWith(s[i], w1) /\ s[i+1] = " " /\ wordStartsWith(s[i+2], w2)
\* text.includes("error:")
includesErrorColon(s) ==
  \E i \in 1..(Len(s) - 1) : wordEndsWith(s[i], "error") /\ s[i+1] = ":"
\* text.startsWith("error")
startsWithError(s) == s # <<>> /\ wordStartsWith(s[1], "error")

\* text.length: the characters of all the tokens
RECURSIVE length(_)
length(s) == IF s = <<>> THEN 0 ELSE Len(Head(s)) + length(Tail(s))

\* text.substring(0, n): whole tokens while they fit, then the part of a token
RECURSIVE substring(_, _)
substring(s, n) ==
  IF s = <<>> \/ n <= 0 THEN <<>>
  ELSE IF Len(Head(s)) <= n THEN <<Head(s)>> \o substring(Tail(s), n - Len(Head(s)))
  ELSE <<SubSeq(Head(s), 1, n)>>

ExcerptLength == 200

\* variant: a string is parsed first and scanned for error text only when it
\* does not parse
normalizeResponse_parseFirst(data, functionName) ==
  IF IsNullish(data) THEN Returned(Null)
  ELSE IF data.t = "string" THEN
    LET lower == toLowerCase(data.v)
        isError == startsWithError(lower) \/ includesErrorColon(lower)
        parsed == JSONparse(data.v)
    IN IF parsed.ok THEN Returned(parsed.val)
       ELSE IF includesPhrase(lower, "permission", "denied") \/ includesPhrase(lower, "access", "denied")
       THEN Thrown(PermissionError(functionName, S(substring(data.v, ExcerptLength))))
       ELSE IF isError
       THEN Thrown(ResourceSpaceError(
              <<"ResourceSpace API error: ">> \o substring(data.v, ExcerptLength),
              functionName, Undef, S(substring(data.v, ExcerptLength)), Undef))
       ELSE Returned(data)
  ELSE IF data.t = "object" /\ Has(data.v, <<"error">>) THEN
    LET errorMsg == IF Truthy(Get(data.v, <<"error">>))
                    THEN Get(data.v, <<"error">>) ELSE S(<<"Unknown error">>)
    IN Thrown(ResourceSpaceError(
         <<"ResourceSpace API error: ">> \o String(errorMsg),
         functionName, Undef, errorMsg, Undef))
  ELSE Returned(data)

\* variant: a string that does not parse is taken for a failure of the service
normalizeResponse_unparsable(data, functionName) ==
  IF IsNullish(data) THEN Returned(Null)
  ELSE IF data.t = "string" THEN
    LET lower == toLowerCase(data.v)
        isError == startsWithError(lower) \/ includesErrorColon(lower)
        parsed == JSONparse(data.v)
    IN IF includesPhrase(lower, "permission", "denied") \/ includesPhrase(lower, "access", "denied")
       THEN Thrown(PermissionError(functionName, S(substring(data.v, ExcerptLength))))
       ELSE IF isError \/ ~parsed.ok
       THEN Thrown(ResourceSpaceError(
              <<"ResourceSpace API error: ">> \o substring(data.v, ExcerptLength),
              functionName, Undef, S(substring(data.v, ExcerptLength)), Undef))
       ELSE Returned(parsed.val)
  ELSE IF data.t = "object" /\ Has(data.v, <<"error">>) THEN
    LET errorMsg == IF Truthy(Get(data.v, <<"error">>))
                    THEN Get(data.v, <<"error">>) ELSE S(<<"Unknown error">>)
    IN Thrown(ResourceSpaceError(
         <<"ResourceSpace API error: ">> \o String(errorMsg),
         functionName, Undef, errorMsg, Undef))
  ELSE Returned(data)

\* variant: an object counts as an error only when its error field is truthy
normalizeResponse_truthyError(data, functionName) ==
  IF IsNullish(data) THEN Returned(Null)
  ELSE IF data.t = "string" THEN
    LET lower == toLowerCase(data.v)
        isError == startsWithError(lower) \/ includesErrorColon(lower)
        parsed == JSONparse(data.v)
    IN IF includesPhrase(lower, "permission", "denied") \/ includesPhrase(lower, "access", "denied")
       THEN Thrown(PermissionError(functionName, S(substring(data.v, ExcerptLength))))
       ELSE IF isError
       THEN Thrown(ResourceSpaceError(
              <<"ResourceSpace API error: ">> \o substring(data.v, ExcerptLength),
              functionName, Undef, S(substring(data.v, ExcerptLength)), Undef))
       ELSE IF parsed.ok THEN Returned(parsed.val)
       ELSE Returned(data)
  ELSE IF data.t = "object" /\ Truthy(Get(data.v, <<"error">>)) THEN
    Thrown(ResourceSpaceError(
      <<"ResourceSpace API error: ">> \o String(Get(data.v, <<"error">>)),
      functionName, Undef, Get(data.v, <<"error">>), Undef))
  ELSE Returned(data)

\* variant: a string that is no error text is handed back as it came
normalizeResponse_unparsed(data, functionName) ==
  IF IsNullish(data) THEN Returned(Null)
  ELSE IF data.t = "string" THEN
    LET lower == toLowerCase(data.v)
        isError == startsWithError(lower) \/ includesErrorColon(lower)
    IN IF includesPhrase(lower, "permission", "denied") \/ includesPhrase(lower, "access", "denied")
       THEN Thrown(PermissionError(functionName, S(substring(data.v, ExcerptLength))))
       ELSE IF isError
       THEN Thrown(ResourceSpaceError(
              <<"ResourceSpace API error: ">> \o substring(data.v, ExcerptLength),
              functionName, Undef, S(substring(data.v, ExcerptLength)), Undef))
       ELSE Returned(data)
  ELSE IF data.t = "object" /\ Has(data.v, <<"error">>) THEN
    LET errorMsg == IF Truthy(Get(data.v, <<"error">>))
                    THEN Get(data.v, <<"error">>) ELSE S(<<"Unknown error">>)
    IN Thrown(ResourceSpaceError(
         <<"ResourceSpace API error: ">> \o String(errorMsg),
         functionName, Undef, errorMsg, Undef))
  ELSE Returned(data)

normalizeResponse(data, functionName) ==
  IF IsNullish(data) THEN Returned(Null)
  ELSE IF data.t = "string" THEN
    LET lower == toLowerCase(data.v)
        isError == startsWithError(lower) \/ includesErrorColon(lower)
                   \/ includesPhrase(lower, "permission", "denied")
                   \/ includesPhrase(lower, "access", "denied")
        parsed == JSONparse(data.v)
    IN IF includesPhrase(lower, "permission", "denied") \/ includesPhrase(lower, "access", "denied")
       THEN Thrown(PermissionError(functionName, S(substring(data.v, ExcerptLength))))
       ELSE IF isError
       THEN Thrown(ResourceSpaceError(
              <<"ResourceSpace API error: ">> \o substring(data.v, ExcerptLength),
              functionName, Undef, S(substring(data.v, ExcerptLength)), Undef))
       ELSE IF parsed.ok THEN Returned(parsed.val)
       ELSE Returned(data)
  ELSE IF data.t = "object" /\ Has(data.v, <<"error">>) THEN
    LET errorMsg == IF Truthy(Get(data.v, <<"error">>))
                    THEN Get(data.v, <<"error">>) ELSE S(<<"Unknown error">>)
    IN Thrown(ResourceSpaceError(
         <<"ResourceSpace API error: ">> \o String(errorMsg),
         functionName, Undef, errorMsg, Undef))
  ELSE Returned(data)

\* words that begin with decimal digits without being a numeral
DigitPrefixOf == [tok \in {"42abc"} |-> 42]

\* parseInt(text, 10)
parseInt(s) ==
  LET toks == skipWs(s)
  IN IF toks = <<>> THEN NaN
     ELSE IF IsNumeral(Head(toks)) THEN N(NumeralOf[Head(toks)])
     ELSE IF Head(toks) \in DOMAIN DigitPrefixOf THEN N(DigitPrefixOf[Head(toks)])
     ELSE NaN

toNumber(value) ==
  IF IsNullish(value) THEN Null
  ELSE LET n == IF value.t = "string" THEN parseInt(value.v) ELSE value
       IN IF n.t = "number" THEN n ELSE Null

ensureArray(data) ==
  IF data.t = "array" THEN data.v
  ELSE IF IsNullish(data) THEN <<>>
  ELSE IF data.t = "object" /\ Get(data.v, <<"resources">>).t = "array" THEN Get(data.v, <<"resources">>).v
  ELSE IF data.t = "object" /\ Get(data.v, <<"data">>).t = "array" THEN Get(data.v, <<"data">>).v
  ELSE <<>>

(***************************************************************************)
(* core/config.ts, core/client.ts                                          *)
(***************************************************************************)
K(word) == <<word>>

DEFAULT_TIMEOUT == 30000
DEFAULT_MAX_BATCH_SIZE == 100
MIN_SECRET_LENGTH == 32

\* the secrets of the model and their length in characters
SecretLength == [secret \in {K("aaaaaaaaaaaaaaaaaaaaaaaaaaaaaaaa"), K("short")} |->
                   IF secret = K("short") THEN 5 ELSE 32]

ConfigurationError(message) == [name |-> "ConfigurationError", message |-> message]

validateConfig(config) ==
  IF ~Truthy(config.baseUrl) THEN Thrown(ConfigurationError(<<"baseUrl is required">>))
  ELSE IF ~Truthy(config.user) THEN Thrown(ConfigurationError(<<"user is required">>))
  ELSE IF ~Truthy(config.secret) THEN Thrown(ConfigurationError(<<"secret is required">>))
  ELSE IF SecretLength[config.secret.v] < MIN_SECRET_LENGTH
  THEN Thrown(ConfigurationError(<<"secret must be at least ", ToString(MIN_SECRET_LENGTH), " characters">>))
  ELSE IF config.authMode \notin {"apiKey", "sessionKey"}
  THEN Thrown(ConfigurationError(<<"authMode must be \"apiKey\" or \"sessionKey\"">>))
  ELSE Returned([config EXCEPT
         !.timeout = IF IsNullish(@) THEN N(DEFAULT_TIMEOUT) ELSE @,
         !.maxBatchSize = IF IsNullish(@) THEN N(DEFAULT_MAX_BATCH_SIZE) ELSE @])

\* requestBaseUrl.replace(/\/+$/, '')
RECURSIVE stripTrailingSlashes(_)
stripTrailingSlashes(s) ==
  IF s # <<>> /\ s[Len(s)] = "/" THEN stripTrailingSlashes(SubSeq(s, 1, Len(s) - 1)) ELSE s

SENSITIVE_PARAM_KEYS == {K("password"), K("secret"), K("key"), K("session_key")}

\* redactParams: the value under a sensitive key is shown as '***'
redactParams(params) ==
  [i \in 1..Len(params) |->
     <<params[i][1], IF params[i][1] \in SENSITIVE_PARAM_KEYS THEN S(<<"***">>) ELSE params[i][2]>>]

\* a call on the logger: its level, its message, its error and its data argument
LogCall(level, msg, error, data) == [level |-> level, msg |-> msg, error |-> error, data |-> data]

\* this.log.debug(`RS API request: ${functionName}`, {...})
requestLog(cfg, functionName, params) ==
  LogCall("debug", <<"RS API request: ">> \o functionName, Undef,
          Obj(<< <<K("function"), S(functionName)>>, <<K("authMode"), S(<<cfg.authMode>>)>>,
                 <<K("user"), cfg.user>>, <<K("params"), Obj(redactParams(params))>> >>))

\* typeof value
typeof(x) ==
  CASE x.t \in {"object", "array", "null"} -> "object"
    [] x.t = "NaN" -> "number"
    [] OTHER -> x.t

\* `${base}/?${query}&sign=${sign}`, kept as its three interpolated parts
makeRequestSend(cfg, functionName, params) ==
  LET signed == buildSignedQuery(cfg.user.v, cfg.secret.v, cfg.authMode, functionName, params)
      requestBaseUrl == IF Truthy(cfg.internalUrl) THEN cfg.internalUrl.v ELSE cfg.baseUrl.v
  IN [functionName |-> functionName, params |-> params,
      base |-> stripTrailingSlashes(requestBaseUrl),
      query |-> signed.query, sign |-> signed.sign]

\* catch (error): a ResourceSpaceError is rethrown, anything else is wrapped
\* (the dash of the source's message is written in ASCII here)
\* variant: every caught error is wrapped
rethrowOrWrap_alwaysWrap(functionName, error) ==
  ResourceSpaceError(<<"API request failed: ">> \o functionName \o <<" - ">> \o error.message,
                     functionName, Undef, Undef, error)

rethrowOrWrap(functionName, error) ==
  IF IsResourceSpaceError(error) THEN error
  ELSE ResourceSpaceError(<<"API request failed: ">> \o functionName \o <<" - ">> \o error.message,
                          functionName, Undef, Undef, error)

\* variant: only server-class statuses are checked before the body is read
makeRequestResult_noAuthCheck(functionName, response) ==
  IF response.kind = "reject"
  THEN [threw |-> TRUE, value |-> Undef, bodyRead |-> FALSE,
        error |-> rethrowOrWrap(functionName, response.error)]
  ELSE IF response.status >= 500
  THEN [threw |-> TRUE, value |-> Undef, bodyRead |-> FALSE,
        error |-> rethrowOrWrap(functionName,
                    ResourceSpaceError(<<"ResourceSpace server error: ", ToString(response.status)>>,
                                       functionName, N(response.status), Undef, Undef))]
  ELSE LET parsedText == JSONparse(response.text)
           data == IF parsedText.ok THEN parsedText.val ELSE S(response.text)
           result == normalizeResponse(data, functionName)
       IN [threw |-> result.threw, value |-> result.value, bodyRead |-> TRUE,
           error |-> IF result.threw THEN rethrowOrWrap(functionName, result.error) ELSE Undef]

\* the rest of makeRequest, once fetch has settled: the value returned or the
\* error thrown, and whether response.text() was called
makeRequestResult(functionName, response) ==
  IF response.kind = "reject"
  THEN [threw |-> TRUE, value |-> Undef, bodyRead |-> FALSE,
        error |-> rethrowOrWrap(functionName, response.error)]
  ELSE IF response.status >= 500
  THEN [threw |-> TRUE, value |-> Undef, bodyRead |-> FALSE,
        error |-> rethrowOrWrap(functionName,
                    ResourceSpaceError(<<"ResourceSpace server error: ", ToString(response.status)>>,
                                       functionName, N(response.status), Undef, Undef))]
  ELSE IF response.status = 401 \/ response.status = 403
  THEN [threw |-> TRUE, value |-> Undef, bodyRead |-> FALSE,
        error |-> rethrowOrWrap(functionName,
                    PermissionError(functionName, S(<<"HTTP ", ToString(response.status)>>)))]
  ELSE LET parsedText == JSONparse(response.text)
           data == IF parsedText.ok THEN parsedText.val ELSE S(response.text)
           result == normalizeResponse(data, functionName)
       IN [threw |-> result.threw, value |-> result.value, bodyRead |-> TRUE,
           error |-> IF result.threw THEN rethrowOrWrap(functionName, result.error) ELSE Undef]

\* the calls makeRequest makes on the logger once fetch has settled, r being what it
\* returns or throws: the debug line of a returned value, the error line of a failure
\* that is no ResourceSpaceError, nothing for a ResourceSpaceError that is rethrown
makeRequestLog(functionName, response, r) ==
  IF response.kind = "reject"
  THEN IF IsResourceSpaceError(response.error) THEN <<>>
       ELSE << LogCall("error", <<"RS API error: ">> \o functionName, response.error,
                       Obj(<< <<K("function"), S(functionName)>>,
                              <<K("error"), S(response.error.message)>> >>)) >>
  ELSE IF r.threw THEN <<>>
  ELSE << LogCall("debug", <<"RS API response: ">> \o functionName, Undef,
                  Obj(<< <<K("function"), S(functionName)>>, <<K("status"), N(response.status)>>,
                         <<K("dataType"), S(<<typeof(r.value)>>)>>,
                         <<K("isArray"), B(r.value.t = "array")>> >>)) >>

(***************************************************************************)
(* capabilities/users.ts                                                   *)
(***************************************************************************)
SAVE_USER_ALLOWED_FIELDS == {K("fullname"), K("email"), K("password"), K("comments")}
MAX_RETRIES == 3
BACKOFF_BASE_MS == 500
DEFAULT_SIGNUP_USERGROUP == 9

\* config.signupUsergroup ?? 9
signupUsergroup(cfg) ==
  IF IsNullish(cfg.signupUsergroup) THEN N(DEFAULT_SIGNUP_USERGROUP) ELSE cfg.signupUsergroup

\* variant: the caller's usergroup is used when one is given
newUserParams_callerGroup(cfg, params) ==
  << <<K("username"), Get(params, K("username"))>>,
     <<K("usergroup"), IF Has(params, K("usergroup")) THEN Get(params, K("usergroup"))
                       ELSE signupUsergroup(cfg)>> >>

\* the parameters createUser hands to new_user
newUserParams(cfg, params) ==
  << <<K("username"), Get(params, K("username"))>>, <<K("usergroup"), signupUsergroup(cfg)>> >>

\* the ref createUser reads out of the new_user result, or null
newUserRef(result) ==
  IF result.t \in {"object", "array"}
  THEN LET fields == IF result.t = "object" THEN result.v ELSE <<>>
       IN IF toNumber(Get(fields, K("ref"))).t # "null"
          THEN toNumber(Get(fields, K("ref")))
          ELSE toNumber(Get(fields, K("user")))
  ELSE toNumber(result)

RECURSIVE copyTruthy(_, _, _)
copyTruthy(saveData, params, keys) ==
  IF keys = <<>> THEN saveData
  ELSE copyTruthy(IF Truthy(Get(params, Head(keys)))
                  THEN Put(saveData, Head(keys), Get(params, Head(keys)))
                  ELSE saveData,
                  params, Tail(keys))

\* saveData = { approved: 0 } plus the profile fields the caller gave
createUserSaveData(params) ==
  copyTruthy(<< <<K("approved"), N(0)>> >>, params, <<K("fullname"), K("email"), K("password")>>)

saveUserParams(ref, saveData) ==
  << <<K("ref"), S(String(ref))>>, <<K("data"), S(JSONstringify(Obj(saveData)))>> >>

\* client.log.warn(`createUser save_user attempt ${attempt}/3 failed, retrying...`, {...})
retryLog(ref, attempt, error) ==
  LogCall("warn", <<"createUser save_user attempt ", ToString(attempt), "/", ToString(MAX_RETRIES),
                    " failed, retrying...">>, Undef,
          Obj(<< <<K("userRef"), ref>>, <<K("error"), S(error.message)>> >>))

createUserSecurityError(ref, lastError) ==
  SecurityError(<<"CRITICAL: User ">> \o String(ref)
                \o <<" was created but save_user failed after ", ToString(MAX_RETRIES), " attempts. ",
                     "User may be auto-approved (RS defaults approved=1). ",
                     "Manually set approved=0 for user ref ">> \o String(ref)
                \o <<". Cause: ">> \o lastError.message)

\* variant: every defined field of the caller's map is kept
sanitize_everyField(sanitized, data) ==
  sanitized \o SelectSeq(data, LAMBDA e : e[2].t # "undefined")

\* saveUser: the caller's fields that pass the allow-list
RECURSIVE sanitize(_, _)
sanitize(sanitized, data) ==
  IF data = <<>> THEN sanitized
  ELSE sanitize(IF Head(data)[1] \in SAVE_USER_ALLOWED_FIELDS /\ Head(data)[2].t # "undefined"
                THEN Put(sanitized, Head(data)[1], Head(data)[2])
                ELSE sanitized,
                Tail(data))

\* what saveUser makes of the save_user result
saveUserResult(r) ==
  IF r.threw
  THEN Returned(Obj(<< <<K("success"), B(FALSE)>>, <<K("error"), S(r.error.message)>> >>))
  ELSE LET result == r.value
           isObject == result.t \in {"object", "array"}
           fields == IF result.t = "object" THEN result.v ELSE <<>>
           failData == Get(fields, K("data"))
           failMessage == IF failData.t = "object" THEN Get(failData.v, K("message")) ELSE Undef
       IN IF isObject /\ StrictEquals(Get(fields, K("status")), S(K("success")))
          THEN Returned(Obj(<< <<K("success"), B(TRUE)>> >>))
          ELSE IF isObject /\ StrictEquals(Get(fields, K("status")), S(K("fail")))
          THEN Returned(Obj(<< <<K("success"), B(FALSE)>>,
                               <<K("error"), IF Truthy(failMessage) THEN failMessage
                                             ELSE S(<<"Save failed">>)>> >>))
          ELSE IF isObject /\ Has(fields, K("error"))
          THEN Returned(Obj(<< <<K("success"), B(FALSE)>>,
                               <<K("error"), IF Truthy(Get(fields, K("error")))
                                             THEN Get(fields, K("error"))
                                             ELSE S(<<"Unknown error">>)>> >>))
          ELSE Returned(Obj(<< <<K("success"), B(FALSE)>>,
                               <<K("error"), S(<<"Unexpected response format">>)>> >>))

(***************************************************************************)
(* capabilities/batch.ts                                                   *)
(***************************************************************************)
\* variant: a list of exactly max ids is rejected as well
enforceLimit_atLimit(ids, max) ==
  IF Len(ids) >= max THEN Thrown(BatchSizeLimitError(Len(ids), max)) ELSE Returned(Undef)

enforceLimit(ids, max) ==
  IF Len(ids) > max THEN Thrown(BatchSizeLimitError(Len(ids), max)) ELSE Returned(Undef)

validateIds(ids, name) ==
  IF \E i \in 1..Len(ids) : validateId(ids[i], name).threw
  THEN validateId(ids[CHOOSE i \in 1..Len(ids) :
                        /\ validateId(ids[i], name).threw
                        /\ \A j \in 1..(i-1) : ~validateId(ids[j], name).threw], name)
  ELSE Returned(Undef)

\* ids.join(','): the decimal form of each id, with a comma between two ids
join(ids) ==
  [i \in 1..(IF ids = <<>> THEN 0 ELSE 2 * Len(ids) - 1) |->
     IF i % 2 = 1 THEN String(ids[(i + 1) \div 2])[1] ELSE ","]

\* the first of the checks that throws, or no error
RECURSIVE firstThrown(_)
firstThrown(checks) ==
  IF checks = <<>> THEN Returned(Undef)
  ELSE IF Head(checks).threw THEN Head(checks) ELSE firstThrown(Tail(checks))

(***************************************************************************)
(* The remote ResourceSpace service, as the sources describe it: it checks *)
(* the signature against the query with the authmode marker taken out,     *)
(* new_user creates an account that is approved by default, save_user      *)
(* writes any column it is given, and failures come back as HTTP statuses, *)
(* as error text or error objects in a 200 body, or as a JSend "fail".     *)
(***************************************************************************)
MaxAccounts == 1
FirstRef == 42

\* the query as the service validates it: without "&authmode=sessionkey"
stripAuthmode(query) ==
  IF Len(query) >= 4 /\ SubSeq(query, Len(query) - 3, Len(query)) = <<"&", "authmode", "=", "sessionkey">>
  THEN SubSeq(query, 1, Len(query) - 4)
  ELSE query

signatureValid(cfg, request) ==
  request.sign = generateSignature(cfg.secret.v, stripAuthmode(request.query))

\* $_GET[name]: the last value given under that name, or undefined
GetParam(pairs, name) ==
  IF \E i \in 1..Len(pairs) : pairs[i][1] = name
  THEN S(pairs[CHOOSE i \in 1..Len(pairs) :
                 pairs[i][1] = name /\ \A j \in (i+1)..Len(pairs) : pairs[j][1] # name][2])
  ELSE Undef

Http(status, text) == [kind |-> "http", status |-> status, text |-> text, error |-> Undef]
Reject(name, message) ==
  [kind |-> "reject", status |-> 0, text |-> <<>>, error |-> [name |-> name, message |-> message]]
NoResponse == [kind |-> "none", status |-> 0, text |-> <<>>, error |-> Undef]

\* answers the service, or the network, can give to any request without acting on it
FailureResponses ==
  { Http(401, <<"[", "]">>), Http(403, <<"[", "]">>),
    Http(500, <<"Internal", " ", "Server", " ", "Error">>), Http(503, <<>>),
    Http(404, <<"Not", " ", "Found">>),
    Http(200, <<"Error", ":", " ", "Invalid", " ", "function">>),
    Http(200, <<"Access", " ", "denied">>),
    Http(200, JSONstringify(Obj(<< <<K("error"), S(<<"Invalid", " ", "signature">>)>> >>))),
    Http(200, JSONstringify(S(JSONstringify(Obj(<< <<K("error"), S(<<"Invalid", " ", "signature">>)>> >>))))),
    Http(200, <<"false">>),
    Reject("TimeoutError", <<"The operation was aborted due to timeout">>),
    Reject("TypeError", <<"fetch failed">>) }

\* new_user: the new ref, in any of the shapes the service uses
NewUserBodies(ref) ==
  { <<ToString(ref)>>,
    JSONstringify(S(<<ToString(ref)>>)),
    JSONstringify(Obj(<< <<K("ref"), N(ref)>> >>)),
    JSONstringify(Obj(<< <<K("user"), S(<<ToString(ref)>>)>> >>)) }

\* save_user: JSend success, or a refusal that leaves the account as it was
SaveUserSuccessBodies ==
  { JSONstringify(Obj(<< <<K("status"), S(K("success"))>>, <<K("data"), Null>> >>)),
    <<"true">> }
SaveUserFailBodies ==
  { JSONstringify(Obj(<< <<K("status"), S(K("fail"))>>,
                         <<K("data"), Obj(<< <<K("message"), S(<<"Invalid", " ", "email">>)>> >>)>> >>)) }

\* read functions: the shapes in which the service hands back a result, as JSON,
\* as JSON inside a JSON string, as a JSON string inside a JSON string, or as text
ReadFunctions == {K("get_users"), K("do_search")}
ResourceUrl == <<"https", ":", "/", "/", "dam.example.com", "/", "filestore", "/", "1.jpg">>
ReadBodies ==
  { <<"true">>, <<"[", "]">>,
    JSONstringify(Arr(<< Obj(<< <<K("ref"), S(K("1"))>> >>) >>)),
    JSONstringify(S(JSONstringify(Arr(<< N(1) >>)))),
    JSONstringify(S(K("alice"))),
    JSONstringify(S(JSONstringify(S(K("42"))))),
    JSONstringify(S(JSONstringify(S(<<"[", "]">>)))),
    ResourceUrl,
    <<"null">> }

\* login: the session key as plain text or as a JSON string, or a refusal
SessionKey == K("0123456789abcdef0123456789abcdef")
LoginBodies == { SessionKey, JSONstringify(S(SessionKey)), JSONstringify(S(K("false"))), K("short") }

\* the columns of an account that a save_user data object overwrites
applyColumns(account, data) ==
  [approved |-> IF Has(data, K("approved")) /\ Get(data, K("approved")).t = "number"
                THEN Get(data, K("approved")).v ELSE account.approved,
   usergroup |-> IF Has(data, K("usergroup")) /\ Get(data, K("usergroup")).t = "number"
                 THEN Get(data, K("usergroup")).v ELSE account.usergroup]

(***************************************************************************)
(* Inputs                                                                  *)
(***************************************************************************)
BaseUrl == <<"https", ":", "/", "/", "dam.example.com", "/", "api", "/">>
InternalUrl == <<"http", ":", "/", "/", "resourcespace-web", "/", "api">>
Secret == K("aaaaaaaaaaaaaaaaaaaaaaaaaaaaaaaa")

RawConfig(user, secret, authMode, internalUrl, maxBatchSize, signup) ==
  [baseUrl |-> S(BaseUrl), user |-> S(user), secret |-> S(secret), authMode |-> authMode,
   internalUrl |-> internalUrl, timeout |-> Undef, maxBatchSize |-> maxBatchSize,
   signupUsergroup |-> signup]

RawConfigs ==
  { RawConfig(K("admin"), Secret, "apiKey", Undef, Undef, Undef),
    RawConfig(K("admin"), Secret, "sessionKey", S(InternalUrl), N(2), N(5)),
    RawConfig(<<"api", "@", "example.com">>, Secret, "apiKey", Undef, N(2), Undef),
    RawConfig(K("admin"), K("short"), "apiKey", Undef, Undef, Undef),
    RawConfig(K("admin"), Secret, "userkey", Undef, Undef, Undef) }

Email == <<"alice", "@", "example.com">>
CreateUserInputs ==
  { << <<K("username"), S(Email)>>, <<K("email"), S(Email)>> >>,
    << <<K("username"), S(K("alice"))>>, <<K("email"), S(Email)>>,
       <<K("fullname"), S(<<"Alice", " ", "A">>)>>, <<K("password"), S(K("secret123"))>> >>,
    << <<K("username"), S(K("alice"))>>, <<K("email"), S(<<>>)>>, <<K("usergroup"), N(1)>> >>,
    << <<K("username"), S(Email)>>, <<K("email"), S(Email)>>, <<K("usergroup"), N(1)>>,
       <<K("password"), S(K("secret123"))>> >> }

SaveUserRefs == {N(FirstRef), N(0)}
SaveUserInputs ==
  { <<>>,
    << <<K("fullname"), S(K("X"))>> >>,
    << <<K("fullname"), S(K("X"))>>, <<K("usergroup"), N(1)>>, <<K("approved"), N(1)>> >>,
    << <<K("usergroup"), N(1)>>, <<K("approved"), N(1)>> >>,
    << <<K("ip_restrict"), S(<<>>)>> >>,
    << <<K("fullname"), Undef>> >>,
    << <<K("approved"), N(1)>>, <<K("email"), S(Email)>>, <<K("password"), S(K("newpass"))>>,
       <<K("comments"), S(<<"a", "\"", "b", "&", "c">>)>>, <<K("fullname"), Undef>> >> }

Iota(n) == [i \in 1..n |-> N(i)]
\* id lists around the configured limit, and one with an invalid id
IdLists(max) == {Iota(n) : n \in {0, 1, max, max + 1}} \cup { <<N(1), N(0)>> }
FieldIds == {N(8), N(0)}
ResourceIds == {N(7), N(0)}
SearchQueries == {K("landscape"), <<"!", "collection", "42">>}
SearchOptions ==
  { <<>>,
    << <<K("limit"), N(10)>>, <<K("offset"), N(5)>> >>,
    << <<K("limit"), N(0)>> >>,
    << <<K("orderBy"), S(K("date"))>>, <<K("sort"), S(K("DESC"))>>, <<K("archive"), N(0)>>,
       <<K("resourceTypes"), S(<<"1", ",", "2">>)>>, <<K("dataJoins"), Arr(<<N(8), N(3)>>)>> >> }
UserIds == {Undef, N(2)}
CollectionIds == {N(1), N(-1)}
NodeLists == { <<N(1), N(2), N(3)>>, <<N(0)>> }

ParamKeys == {K("param1"), K("param2"), K("user")}
ParamValues == {Undef, Null, S(<<>>), S(<<"a", "&", "b", "=", "c">>), N(0), B(FALSE)}
MaxParams == 2
\* parameter maps of at most MaxParams entries, keys distinct, in every order
RECURSIVE ParamMapsOfLength(_)
ParamMapsOfLength(n) ==
  IF n = 0 THEN { <<>> }
  ELSE { Append(m, <<k, v>>) : m \in ParamMapsOfLength(n - 1), k \in ParamKeys, v \in ParamValues }
ParamMaps ==
  { m \in UNION { ParamMapsOfLength(n) : n \in 0..MaxParams } :
      \A i, j \in 1..Len(m) : i # j => m[i][1] # m[j][1] }

QueryUsers == {K("admin"), <<"a", "&", "b">>}

\* a word of 250 characters
LongWord ==
  LET x10 == "xxxxxxxxxx"
      x50 == x10 \o x10 \o x10 \o x10 \o x10
  IN x50 \o x50 \o x50 \o x50 \o x50

\* raw data handed to normalizeResponse
RawStrings ==
  { <<>>,
    K("42"),
    JSONstringify(Obj(<< <<K("ref"), N(42)>>, <<K("name"), S(K("resource"))>> >>)),
    JSONstringify(Obj(<< <<K("error"), S(K("x"))>> >>)),
    <<"https", ":", "/", "/", "dam.example.com", "/", "pages", "/", "download.php", "?", "ref", "=", "42">>,
    <<"/", "var", "/", "filestore", "/", "1.jpg">>,
    <<"Permission", " ", "denied", " ", "for", " ", "this", " ", "resource">>,
    <<"Access", " ", "denied">>,
    <<"Error", ":", " ", "Invalid", " ", "function">>,
    <<"Error", ":", " ", "access", " ", "denied">>,
    <<"ERROR", " ", "-", " ", LongWord>>,
    <<"Permission", " ", "denied", ":", " ", LongWord>>,
    <<"errors">>,
    <<"noerror", ":", " ", "1">>,
    <<"\"", "error", ":", " ", "x", "\"">>,
    <<"[", "\"", "Access", " ", "denied", "\"", "]">>,
    <<"no", " ", "error">> }
RawValues ==
  { Null, Undef, N(5), B(FALSE),
    Obj(<< <<K("ref"), N(1)>>, <<K("name"), S(K("test"))>> >>),
    Obj(<<>>),
    Arr(<< Obj(<< <<K("ref"), N(1)>> >>), Obj(<< <<K("ref"), N(2)>> >>) >>),
    Arr(<<>>),
    Obj(<< <<K("error"), S(<<"Something", " ", "went", " ", "wrong">>)>> >>),
    Obj(<< <<K("error"), S(<<>>)>> >>),
    Obj(<< <<K("error"), Null>>, <<K("ref"), N(1)>> >>),
    Obj(<< <<K("error"), N(0)>> >>),
    Obj(<< <<K("error"), B(FALSE)>> >>),
    Obj(<< <<K("error"), Undef>> >>),
    Obj(<< <<K("error"), N(42)>> >>) }
RawInputs == RawValues \cup { S(text) : text \in RawStrings }

\* parameter maps handed to makeRequest directly
RequestParams ==
  { <<>>,
    << <<K("find"), S(<<"a", "&", "b">>)>>, <<K("exact_username_match"), B(TRUE)>> >>,
    << <<K("find"), Null>>, <<K("function"), S(K("delete_resource"))>> >>,
    << <<K("user"), S(K("root"))>>, <<K("password"), S(K("secret123"))>> >> }
RequestFunctions == ReadFunctions

(***************************************************************************)
(* Capabilities: the methods each one attaches, and how it attaches them   *)
(***************************************************************************)
\* how many capabilities createClient is given, and how many capability calls are
\* followed on one object
MaxCapabilities == 2
\* how many mutations of one object are followed
MaxMutations == 1

\* the eight capability functions, in the order createAdminClient applies them
AdminCapabilities ==
  <<"withSearch", "withResources", "withCollections", "withFields", "withSystem",
    "withUsers", "withBatch", "withUpload">>
\* the five createBasicClient applies, innermost first
BasicCapabilities ==
  <<"withSearch", "withResources", "withCollections", "withFields", "withSystem">>
Capabilities == { AdminCapabilities[i] : i \in DOMAIN AdminCapabilities }

\* the keys of the methods object each capability builds, in the order written
methods(cap) ==
  CASE cap = "withSearch" -> <<"search", "searchByField">>
    [] cap = "withResources" ->
         <<"getResource", "getResourceFieldData", "getResourcePath", "getResourceLog",
           "getRelatedResources", "getAlternativeFiles", "createResource", "copyResource",
           "deleteResource">>
    [] cap = "withCollections" ->
         <<"getCollections", "getCollectionResources", "getAllFeaturedCollections",
           "getFeaturedCollections", "searchCollections", "createCollection",
           "deleteCollection", "addToCollection", "removeFromCollection", "shareCollection">>
    [] cap = "withFields" ->
         <<"getFields", "getFieldOptions", "getFieldValues", "getNodes", "setNode",
           "updateField", "resolveFieldDisplayName">>
    [] cap = "withSystem" -> <<"getResourceTypes", "getApiVersion", "getSystemStatus">>
    [] cap = "withUsers" ->
         <<"getUser", "getFullUser", "getUserRef", "getUsers", "checkCredentials",
           "createUser", "saveUser">>
    [] cap = "withBatch" ->
         <<"batchFieldUpdate", "batchDelete", "batchCollectionAdd", "batchCollectionRemove",
           "batchNodesAdd", "batchNodesRemove", "batchArchiveStatus">>
    [] cap = "withUpload" -> <<"uploadFile", "addAlternativeFile">>

\* a function object: the code it runs (owner and name) and which call of a capability
\* created it; two function objects are the same value only if they are one closure
Fn(owner, name, made) == [owner |-> owner, name |-> name, made |-> made]

\* the own properties of new RSClientCore(config); makeRequest and rewriteUrl are
\* inherited from the prototype
RSClientCore ==
  [key \in {"config", "log"} |->
     [value |-> Fn("RSClientCore", key, 0), writable |-> TRUE, configurable |-> TRUE]]

\* Object.defineProperty(target, key, desc) on an extensible object of enumerable data
\* properties: a property that is not configurable takes no new attribute, and no new
\* value unless it is writable; the rejection is a TypeError
defineProperty(target, key, desc) ==
  IF key \in DOMAIN target /\ ~target[key].configurable
     /\ (desc.configurable
         \/ (~target[key].writable /\ (desc.writable \/ desc.value # target[key].value)))
  THEN [threw |-> TRUE, target |-> target]
  ELSE [threw |-> FALSE,
        target |-> [k \in DOMAIN target \cup {key} |-> IF k = key THEN desc ELSE target[k]]]

\* target[key] = value in strict code: a TypeError on a property that is not writable
assignProperty(target, key, value) ==
  IF key \notin DOMAIN target
  THEN [threw |-> FALSE,
        target |-> [k \in DOMAIN target \cup {key} |->
                      IF k = key THEN [value |-> value, writable |-> TRUE, configurable |-> TRUE]
                      ELSE target[k]]]
  ELSE IF ~target[key].writable THEN [threw |-> TRUE, target |-> target]
  ELSE [threw |-> FALSE, target |-> [target EXCEPT ![key].value = value]]

\* delete target[key]: a property that is not configurable stays
deleteProperty(target, key) ==
  IF key \in DOMAIN target /\ ~target[key].configurable THEN [threw |-> TRUE, target |-> target]
  ELSE [threw |-> FALSE, target |-> [k \in DOMAIN target \ {key} |-> target[k]]]

\* variant: only the first entry is defined
assignCapability_firstOnly(target, entries) ==
  defineProperty(target, Head(entries)[1],
    [value |-> Head(entries)[2], writable |-> FALSE, configurable |-> FALSE])

\* the entries are defined one after the other; a TypeError leaves the earlier ones defined
RECURSIVE assignCapability(_, _)
assignCapability(target, entries) ==
  IF entries = <<>> THEN [threw |-> FALSE, target |-> target]
  ELSE LET defined == defineProperty(target, Head(entries)[1],
                        [value |-> Head(entries)[2], writable |-> FALSE, configurable |-> FALSE])
       IN IF defined.threw THEN defined ELSE assignCapability(defined.target, Tail(entries))

\* Object.assign(target, methods): every entry is assigned, in order
RECURSIVE ObjectAssign(_, _)
ObjectAssign(target, entries) ==
  IF entries = <<>> THEN [threw |-> FALSE, target |-> target]
  ELSE LET assigned == assignProperty(target, Head(entries)[1], Head(entries)[2])
       IN IF assigned.threw THEN assigned ELSE ObjectAssign(assigned.target, Tail(entries))

\* cap(client): the capability builds its methods object, closures over the client made
\* by this call, attaches it to the client it was given and returns that same object.
\* withBatch is the first of the two definitions in batch.ts; the second one attaches
\* with Object.assign
withCapability(cap, target, made) ==
  LET entries == [i \in DOMAIN methods(cap) |-> <<methods(cap)[i], Fn(cap, methods(cap)[i], made)>>]
  IN IF cap \in {"withSearch", "withResources", "withSystem", "withBatch", "withUpload"}
     THEN assignCapability(target, entries)
     ELSE ObjectAssign(target, entries)

\* for (const cap of capabilities) client = cap(client), from the with-call numbered made
RECURSIVE compose(_, _, _)
compose(target, capabilities, made) ==
  IF capabilities = <<>> THEN [threw |-> FALSE, target |-> target]
  ELSE LET applied == withCapability(Head(capabilities), target, made)
       IN IF applied.threw THEN applied ELSE compose(applied.target, Tail(capabilities), made + 1)

(***************************************************************************)
(* State                                                                   *)
(***************************************************************************)
VARIABLES
  given,     \* the configuration the client was constructed from
  config,    \* the client's validated configuration (read-only after construction)
  accounts,  \* the remote service's user table: ref -> [approved, usergroup]
  pc,        \* per caller: "idle", "fetch" (awaiting fetch), "settled" (makeRequest has
             \* returned or thrown), "timer" (backoff), "done"
  op,        \* per caller: the operation in progress and its arguments
  loc,       \* per caller: the local variables of the operation in progress
  req,       \* per caller: the request handed to fetch
  resp,      \* per caller: how that fetch settled, once it has
  calls,     \* per caller: the remote calls the operation has made, with their outcome
  result,    \* per caller: what the operation returned or threw
  made,      \* per caller: what the makeRequest that just settled returned or threw
  log,       \* per caller: the calls the step just taken made on the logger
  client,    \* the client object the caller holds: its own properties, each with value,
             \* writable and configurable, and the number of capability calls made on it
  composed,  \* the capabilities whose attachment to that object has completed
  last,      \* the latest factory call, capability call or mutation, and how it ended
  budget     \* the capability calls and mutations the caller may still make on the object

composition == <<client, composed, last, budget>>
vars == <<given, config, accounts, pc, op, loc, req, resp, calls, result, made, log, composition>>

Procs == {1}

NoOp == [name |-> "none", args |-> <<>>]
NoLoc == [stage |-> "none"]
NoRequest == [functionName |-> <<>>, params |-> <<>>, base |-> <<>>, query |-> <<>>, sign |-> <<>>]
NoResult == [threw |-> FALSE, value |-> Undef, error |-> Undef]
NoMade == [threw |-> FALSE, value |-> Undef, bodyRead |-> FALSE, error |-> Undef]

\* the service creates at most MaxAccounts accounts for each caller of the client
AccountLimit == MaxAccounts * Cardinality(DOMAIN pc)

\* every <<response, accounts afterwards>> the service can produce for a request
RemoteOutcomes(cfg, request, accts) ==
  LET get == parseQuery(stripAuthmode(request.query))
      fn == GetParam(get, K("function"))
      refParam == IF GetParam(get, K("ref")).t = "string" THEN parseInt(GetParam(get, K("ref")).v) ELSE NaN
      groupParam == IF GetParam(get, K("usergroup")).t = "string"
                    THEN parseInt(GetParam(get, K("usergroup")).v) ELSE NaN
      dataParam == IF GetParam(get, K("data")).t = "string"
                   THEN JSONparse(GetParam(get, K("data")).v) ELSE [ok |-> FALSE, val |-> Undef]
      newRef == FirstRef + Cardinality(DOMAIN accts)
      acted ==
        IF ~signatureValid(cfg, request) THEN {}
        ELSE IF StrictEquals(fn, S(K("new_user")))
        THEN IF Cardinality(DOMAIN accts) < AccountLimit /\ groupParam.t = "number"
             THEN { <<Http(200, body),
                      [r \in DOMAIN accts \cup {newRef} |->
                         IF r = newRef THEN [approved |-> 1, usergroup |-> groupParam.v] ELSE accts[r]]>> :
                    body \in NewUserBodies(newRef) }
             ELSE {}
        ELSE IF StrictEquals(fn, S(K("save_user")))
        THEN IF refParam.t = "number" /\ refParam.v \in DOMAIN accts
                /\ dataParam.ok /\ dataParam.val.t = "object"
             THEN { <<Http(200, body),
                      [accts EXCEPT ![refParam.v] = applyColumns(@, dataParam.val.v)]>> :
                    body \in SaveUserSuccessBodies }
                  \cup { <<Http(200, body), accts>> : body \in SaveUserFailBodies }
             ELSE { <<Http(200, body), accts>> : body \in SaveUserFailBodies }
        ELSE IF StrictEquals(fn, S(K("login")))
        THEN { <<Http(200, body), accts>> : body \in LoginBodies }
        ELSE IF fn.t = "string" /\ fn.v \in ReadFunctions \cup {K("get_user_collections")}
        THEN { <<Http(200, body), accts>> : body \in ReadBodies }
        ELSE { <<Http(200, <<"true">>), accts>>, <<Http(200, <<"[", "]">>), accts>> }
  IN acted \cup { <<response, accts>> : response \in FailureResponses }

\* the capability lists createClient is given
CapabilityLists == UNION { [1..n -> Capabilities] : n \in 1..MaxCapabilities }
\* let client = new RSClientCore(config); for (const cap of capabilities) client = cap(client),
\* for every list a factory applies
Built ==
  [capabilities \in CapabilityLists \cup {BasicCapabilities, AdminCapabilities} |->
     compose(RSClientCore, capabilities, 1)]

NoLast ==
  [kind |-> "none", capabilities |-> <<>>, key |-> "", before |-> {}, had |-> FALSE, threw |-> FALSE]
\* the methods mutation is tried on: the first one of each capability
MutatedKeys == { methods(cap)[1] : cap \in Capabilities }

\* the client the operations below are called on is the one createAdminClient returns
Init ==
  /\ \E raw \in RawConfigs :
       /\ ~validateConfig(raw).threw
       /\ given = raw
       /\ config = validateConfig(raw).value
  /\ accounts = [r \in {} |-> [approved |-> 1, usergroup |-> 0]]
  /\ pc = [p \in Procs |-> "idle"]
  /\ op = [p \in Procs |-> NoOp]
  /\ loc = [p \in Procs |-> NoLoc]
  /\ req = [p \in Procs |-> NoRequest]
  /\ resp = [p \in Procs |-> NoResponse]
  /\ calls = [p \in Procs |-> <<>>]
  /\ result = [p \in Procs |-> NoResult]
  /\ made = [p \in Procs |-> NoMade]
  /\ log = [p \in Procs |-> <<>>]
  /\ client = [held |-> TRUE, props |-> Built[AdminCapabilities].target,
               withs |-> Len(AdminCapabilities)]
  /\ composed = Capabilities
  /\ last = NoLast
  /\ budget = [calls |-> MaxCapabilities - 1, mutations |-> MaxMutations]

\* the operation starts: up to its first await it runs without interruption
Begin(p, name, args) ==
  /\ pc[p] = "idle"
  /\ op' = [op EXCEPT ![p] = [name |-> name, args |-> args]]
  /\ UNCHANGED <<composition, given, config, accounts>>

\* await client.makeRequest(functionName, params): the request goes out
Issue(p, history, functionName, params, locals) ==
  /\ req' = [req EXCEPT ![p] = makeRequestSend(config, functionName, params)]
  /\ resp' = [resp EXCEPT ![p] = NoResponse]
  /\ calls' = [calls EXCEPT ![p] = Append(history, [functionName |-> functionName, outcome |-> "pending"])]
  /\ pc' = [pc EXCEPT ![p] = "fetch"]
  /\ loc' = [loc EXCEPT ![p] = locals]
  /\ made' = [made EXCEPT ![p] = NoMade]
  /\ log' = [log EXCEPT ![p] = <<requestLog(config, functionName, params)>>]
  /\ UNCHANGED result

\* the operation returns or throws
Finish(p, history, outcome) ==
  /\ result' = [result EXCEPT ![p] = outcome]
  /\ calls' = [calls EXCEPT ![p] = history]
  /\ pc' = [pc EXCEPT ![p] = "done"]
  /\ req' = [req EXCEPT ![p] = NoRequest]
  /\ resp' = [resp EXCEPT ![p] = NoResponse]
  /\ made' = [made EXCEPT ![p] = NoMade]
  /\ log' = [log EXCEPT ![p] = <<>>]
  /\ UNCHANGED loc

\* the awaited makeRequest has settled
Settled(p, name) == pc[p] = "settled" /\ op[p].name = name
MadeRequest(p) == made[p]
History(p) == calls[p]
Resume(p) == UNCHANGED <<composition, given, config, accounts, op>>

(***************************************************************************)
(* The remote service and the network                                      *)
(***************************************************************************)
Remote(p) ==
  /\ pc[p] = "fetch"
  /\ resp[p].kind = "none"
  /\ \E outcome \in RemoteOutcomes(config, req[p], accounts) :
       /\ resp' = [resp EXCEPT ![p] = outcome[1]]
       /\ accounts' = outcome[2]
  /\ UNCHANGED <<composition, given, config, pc, op, loc, req, calls, result, made, log>>

\* core/client.ts: fetch has settled and makeRequest runs to its end
makeRequest_settle(p) ==
  /\ pc[p] = "fetch"
  /\ resp[p].kind # "none"
  /\ made' = [made EXCEPT ![p] = makeRequestResult(req[p].functionName, resp[p])]
  /\ calls' = [calls EXCEPT ![p] =
                [@ EXCEPT ![Len(@)].outcome =
                   IF made'[p].threw THEN "threw" ELSE "returned"]]
  /\ pc' = [pc EXCEPT ![p] = "settled"]
  /\ log' = [log EXCEPT ![p] = makeRequestLog(req[p].functionName, resp[p], made'[p])]
  /\ UNCHANGED <<composition, given, config, accounts, op, loc, req, resp, result>>

(***************************************************************************)
(* utils/query-builder.ts called directly                                  *)
(***************************************************************************)
Call_buildQueryString(p) ==
  /\ pc[p] = "idle"
  /\ \E user \in QueryUsers, params \in ParamMaps :
       /\ Begin(p, "buildQueryString", [user |-> user, params |-> params])
       /\ Finish(p, <<>>, Returned(S(buildQueryString(user, params))))

\* the same request signed for each authentication mode
Call_buildSignedQuery(p) ==
  /\ pc[p] = "idle"
  /\ \E user \in QueryUsers, functionName \in RequestFunctions, params \in ParamMaps \cup RequestParams :
       /\ Begin(p, "buildSignedQuery",
                [user |-> user, secret |-> Secret, functionName |-> functionName, params |-> params])
       /\ Finish(p, <<>>,
                 Returned([apiKey |-> buildSignedQuery(user, Secret, "apiKey", functionName, params),
                           sessionKey |-> buildSignedQuery(user, Secret, "sessionKey", functionName, params)]))

(***************************************************************************)
(* utils/response.ts called directly                                       *)
(***************************************************************************)
Call_normalizeResponse(p) ==
  /\ pc[p] = "idle"
  /\ \E data \in RawInputs, functionName \in RequestFunctions :
       /\ Begin(p, "normalizeResponse", [data |-> data, functionName |-> functionName])
       /\ Finish(p, <<>>, normalizeResponse(data, functionName))

(***************************************************************************)
(* core/client.ts: makeRequest called directly                             *)
(***************************************************************************)
Call_makeRequest(p) ==
  /\ pc[p] = "idle"
  /\ \E functionName \in RequestFunctions, params \in RequestParams :
       /\ Begin(p, "makeRequest", [functionName |-> functionName, params |-> params])
       /\ Issue(p, <<>>, functionName, params, [stage |-> "request"])

Done_makeRequest(p) ==
  /\ Settled(p, "makeRequest")
  /\ Resume(p)
  /\ Finish(p, History(p),
            IF MadeRequest(p).threw THEN Thrown(MadeRequest(p).error)
            ELSE Returned(MadeRequest(p).value))

(***************************************************************************)
(* capabilities/users.ts: createUser, saveUser                             *)
(***************************************************************************)
Call_createUser(p) ==
  /\ pc[p] = "idle"
  /\ \E params \in CreateUserInputs :
       /\ Begin(p, "createUser", params)
       /\ Issue(p, <<>>, K("new_user"), newUserParams(config, params), [stage |-> "new_user"])

\* variant: the ref is used without being checked
createUser_new_user_unchecked(p) ==
  /\ Settled(p, "createUser")
  /\ loc[p].stage = "new_user"
  /\ Resume(p)
  /\ LET r == MadeRequest(p)
         ref == newUserRef(r.value)
         saveData == createUserSaveData(op[p].args)
     IN IF r.threw THEN Finish(p, History(p), Thrown(r.error))
        ELSE Issue(p, History(p), K("save_user"), saveUserParams(ref, saveData),
                   [stage |-> "save_user", ref |-> ref, saveData |-> saveData,
                    attempt |-> 1, lastError |-> Undef, delay |-> 0])

\* new_user has settled: read the ref and make the first save_user attempt
createUser_new_user(p) ==
  /\ Settled(p, "createUser")
  /\ loc[p].stage = "new_user"
  /\ Resume(p)
  /\ LET r == MadeRequest(p)
         ref == newUserRef(r.value)
         saveData == createUserSaveData(op[p].args)
     IN IF r.threw THEN Finish(p, History(p), Thrown(r.error))
        ELSE IF ref.t = "null"
        THEN Finish(p, History(p), Thrown(Error(<<"new_user returned invalid ref">>)))
        ELSE Issue(p, History(p), K("save_user"), saveUserParams(ref, saveData),
                   [stage |-> "save_user", ref |-> ref, saveData |-> saveData,
                    attempt |-> 1, lastError |-> Undef, delay |-> 0])

\* variant: one more attempt is made before giving up
createUser_save_user_again(p) ==
  /\ Settled(p, "createUser")
  /\ loc[p].stage = "save_user"
  /\ Resume(p)
  /\ LET r == MadeRequest(p)
     IN IF ~r.threw THEN Finish(p, History(p), Returned(loc[p].ref))
        ELSE IF loc[p].attempt < MAX_RETRIES + 1
        THEN /\ loc' = [loc EXCEPT ![p] = [@ EXCEPT !.stage = "backoff", !.lastError = r.error,
                                                   !.delay = BACKOFF_BASE_MS * loc[p].attempt]]
             /\ pc' = [pc EXCEPT ![p] = "timer"]
             /\ calls' = [calls EXCEPT ![p] = History(p)]
             /\ req' = [req EXCEPT ![p] = NoRequest]
             /\ resp' = [resp EXCEPT ![p] = NoResponse]
             /\ made' = [made EXCEPT ![p] = NoMade]
             /\ log' = [log EXCEPT ![p] = <<retryLog(loc[p].ref, loc[p].attempt, r.error)>>]
             /\ UNCHANGED result
        ELSE Finish(p, History(p), Thrown(createUserSecurityError(loc[p].ref, r.error)))

\* a save_user attempt has settled: return the ref, back off, or give up
createUser_save_user(p) ==
  /\ Settled(p, "createUser")
  /\ loc[p].stage = "save_user"
  /\ Resume(p)
  /\ LET r == MadeRequest(p)
     IN IF ~r.threw THEN Finish(p, History(p), Returned(loc[p].ref))
        ELSE IF loc[p].attempt < MAX_RETRIES
        THEN /\ loc' = [loc EXCEPT ![p] = [@ EXCEPT !.stage = "backoff", !.lastError = r.error,
                                                   !.delay = BACKOFF_BASE_MS * loc[p].attempt]]
             /\ pc' = [pc EXCEPT ![p] = "timer"]
             /\ calls' = [calls EXCEPT ![p] = History(p)]
             /\ req' = [req EXCEPT ![p] = NoRequest]
             /\ resp' = [resp EXCEPT ![p] = NoResponse]
             /\ made' = [made EXCEPT ![p] = NoMade]
             /\ log' = [log EXCEPT ![p] = <<retryLog(loc[p].ref, loc[p].attempt, r.error)>>]
             /\ UNCHANGED result
        ELSE Finish(p, History(p), Thrown(createUserSecurityError(loc[p].ref, r.error)))

\* variant: the ref is read from state the calls share, the account created last
createUser_backoff_sharedRef(p) ==
  /\ pc[p] = "timer"
  /\ op[p].name = "createUser"
  /\ Issue(p, calls[p], K("save_user"),
           saveUserParams(N(FirstRef + Cardinality(DOMAIN accounts) - 1), loc[p].saveData),
           [loc[p] EXCEPT !.stage = "save_user", !.attempt = @ + 1])
  /\ UNCHANGED <<composition, given, config, accounts, op>>

\* the backoff timer fires: the next attempt
createUser_backoff(p) ==
  /\ pc[p] = "timer"
  /\ op[p].name = "createUser"
  /\ Issue(p, calls[p], K("save_user"), saveUserParams(loc[p].ref, loc[p].saveData),
           [loc[p] EXCEPT !.stage = "save_user", !.attempt = @ + 1])
  /\ UNCHANGED <<composition, given, config, accounts, op>>

\* variant: the request is made even when filtering leaves nothing
Call_saveUser_always(p) ==
  /\ pc[p] = "idle"
  /\ \E userRef \in SaveUserRefs, data \in SaveUserInputs :
       /\ Begin(p, "saveUser", [userRef |-> userRef, data |-> data])
       /\ Issue(p, <<>>, K("save_user"), saveUserParams(userRef, sanitize(<<>>, data)), [stage |-> "save_user"])

Call_checkCredentials(p) ==
  /\ pc[p] = "idle"
  /\ \E password \in {K("secret123"), K("wrong")} :
       /\ Begin(p, "checkCredentials", [username |-> K("alice"), password |-> password])
       /\ Issue(p, <<>>, K("login"),
                << <<K("username"), S(K("alice"))>>, <<K("password"), S(password)>> >>,
                [stage |-> "login"])

\* the session key when the result is a string of 32 characters or more, else null;
\* null as well when the request threw
checkCredentialsResult(r) ==
  IF ~r.threw /\ r.value.t = "string" /\ length(r.value.v) >= 32
  THEN Returned(r.value)
  ELSE Returned(Null)

Done_checkCredentials(p) ==
  /\ Settled(p, "checkCredentials")
  /\ Resume(p)
  /\ Finish(p, History(p), checkCredentialsResult(MadeRequest(p)))

Call_saveUser(p) ==
  /\ pc[p] = "idle"
  /\ \E userRef \in SaveUserRefs, data \in SaveUserInputs :
       LET sanitized == sanitize(<<>>, data)
       IN /\ Begin(p, "saveUser", [userRef |-> userRef, data |-> data])
          /\ IF Len(sanitized) = 0
             THEN Finish(p, <<>>, Thrown(SecurityError(
                    <<"No valid fields to update. Allowed fields: ", "fullname, email, password, comments">>)))
             ELSE Issue(p, <<>>, K("save_user"), saveUserParams(userRef, sanitized), [stage |-> "save_user"])

Done_saveUser(p) ==
  /\ Settled(p, "saveUser")
  /\ Resume(p)
  /\ Finish(p, History(p), saveUserResult(MadeRequest(p)))

(***************************************************************************)
(* capabilities/batch.ts: the seven batch operations                       *)
(***************************************************************************)
\* const max = client.config.maxBatchSize ?? 100
batchMax(cfg) == IF IsNullish(cfg.maxBatchSize) THEN DEFAULT_MAX_BATCH_SIZE ELSE cfg.maxBatchSize.v

\* the operation's precondition checks, then its first request (or its result)
BatchStart(p, name, args, checks, functionName, params, locals) ==
  /\ Begin(p, name, args)
  /\ IF firstThrown(checks).threw THEN Finish(p, <<>>, firstThrown(checks))
     ELSE Issue(p, <<>>, functionName, params, locals)

Call_batchFieldUpdate(p) ==
  /\ pc[p] = "idle"
  /\ \E resourceIds \in IdLists(batchMax(config)), fieldId \in FieldIds :
       BatchStart(p, "batchFieldUpdate", [resourceIds |-> resourceIds, fieldId |-> fieldId],
                  <<enforceLimit(resourceIds, batchMax(config)),
                    validateIds(resourceIds, <<"resource ID">>),
                    validateId(fieldId, <<"field ID">>)>>,
                  K("update_field"),
                  << <<K("resource"), S(join(resourceIds))>>, <<K("field"), S(String(fieldId))>>,
                     <<K("value"), S(K("test"))>> >>,
                  [stage |-> "single"])

Call_batchDelete(p) ==
  /\ pc[p] = "idle"
  /\ \E resourceIds \in IdLists(batchMax(config)) :
       BatchStart(p, "batchDelete", [resourceIds |-> resourceIds],
                  <<enforceLimit(resourceIds, batchMax(config)),
                    validateIds(resourceIds, <<"resource ID">>)>>,
                  K("delete_resource"),
                  << <<K("resource"), S(join(resourceIds))>> >>,
                  [stage |-> "single"])

Call_batchNodesAdd(p) ==
  /\ pc[p] = "idle"
  /\ \E resourceIds \in IdLists(batchMax(config)), nodeIds \in NodeLists :
       BatchStart(p, "batchNodesAdd", [resourceIds |-> resourceIds, nodeIds |-> nodeIds],
                  <<enforceLimit(resourceIds, batchMax(config)),
                    validateIds(resourceIds, <<"resource ID">>),
                    validateIds(nodeIds, <<"node ID">>)>>,
                  K("add_resource_nodes_multi"),
                  << <<K("resourceid"), S(join(resourceIds))>>, <<K("nodes"), S(join(nodeIds))>> >>,
                  [stage |-> "single"])

Call_batchArchiveStatus(p) ==
  /\ pc[p] = "idle"
  /\ \E resourceIds \in IdLists(batchMax(config)) :
       BatchStart(p, "batchArchiveStatus", [resourceIds |-> resourceIds, archiveStatus |-> N(2)],
                  <<enforceLimit(resourceIds, batchMax(config)),
                    validateIds(resourceIds, <<"resource ID">>)>>,
                  K("update_resource_archive_status"),
                  << <<K("resource"), S(join(resourceIds))>>, <<K("archive"), S(String(N(2)))>> >>,
                  [stage |-> "single"])

\* the one request of a single-call batch operation has settled
Done_batchSingle(p) ==
  /\ \E name \in {"batchFieldUpdate", "batchDelete", "batchNodesAdd", "batchArchiveStatus"} :
       Settled(p, name)
  /\ Resume(p)
  /\ Finish(p, History(p),
            IF MadeRequest(p).threw THEN Thrown(MadeRequest(p).error)
            ELSE Returned(B(~StrictEquals(MadeRequest(p).value, B(FALSE)))))

\* the request a per-resource batch operation makes for one id
LoopRequest(name, args, id) ==
  CASE name = "batchCollectionAdd" ->
         [functionName |-> K("add_resource_to_collection"),
          params |-> << <<K("resource"), S(String(id))>>,
                        <<K("collection"), S(String(args.collectionId))>> >>]
    [] name = "batchCollectionRemove" ->
         [functionName |-> K("remove_resource_from_collection"),
          params |-> << <<K("resource"), S(String(id))>>,
                        <<K("collection"), S(String(args.collectionId))>> >>]
    [] name = "batchNodesRemove" ->
         [functionName |-> K("remove_resource_nodes"),
          params |-> << <<K("resource"), S(String(id))>>,
                        <<K("nodestring"), S(join(args.nodeIds))>> >>]

\* for (const id of resourceIds) await client.makeRequest(...); return true
BatchLoopStart(p, name, args, checks) ==
  /\ Begin(p, name, args)
  /\ IF firstThrown(checks).threw THEN Finish(p, <<>>, firstThrown(checks))
     ELSE IF args.resourceIds = <<>> THEN Finish(p, <<>>, Returned(B(TRUE)))
     ELSE Issue(p, <<>>, LoopRequest(name, args, Head(args.resourceIds)).functionName,
                LoopRequest(name, args, Head(args.resourceIds)).params,
                [stage |-> "loop", remaining |-> Tail(args.resourceIds)])

Call_batchCollectionAdd(p) ==
  /\ pc[p] = "idle"
  /\ \E collectionId \in CollectionIds, resourceIds \in IdLists(batchMax(config)) :
       BatchLoopStart(p, "batchCollectionAdd", [collectionId |-> collectionId, resourceIds |-> resourceIds],
                      <<enforceLimit(resourceIds, batchMax(config)),
                        validateId(collectionId, <<"collection ID">>),
                        validateIds(resourceIds, <<"resource ID">>)>>)

Call_batchCollectionRemove(p) ==
  /\ pc[p] = "idle"
  /\ \E collectionId \in CollectionIds, resourceIds \in IdLists(batchMax(config)) :
       BatchLoopStart(p, "batchCollectionRemove", [collectionId |-> collectionId, resourceIds |-> resourceIds],
                      <<enforceLimit(resourceIds, batchMax(config)),
                        validateId(collectionId, <<"collection ID">>),
                        validateIds(resourceIds, <<"resource ID">>)>>)

Call_batchNodesRemove(p) ==
  /\ pc[p] = "idle"
  /\ \E resourceIds \in IdLists(batchMax(config)), nodeIds \in NodeLists :
       BatchLoopStart(p, "batchNodesRemove", [resourceIds |-> resourceIds, nodeIds |-> nodeIds],
                      <<enforceLimit(resourceIds, batchMax(config)),
                        validateIds(resourceIds, <<"resource ID">>),
                        validateIds(nodeIds, <<"node ID">>)>>)

\* one request of the loop has settled: throw, go on to the next id, or return true
Next_batchLoop(p) ==
  /\ \E name \in {"batchCollectionAdd", "batchCollectionRemove", "batchNodesRemove"} : Settled(p, name)
  /\ Resume(p)
  /\ IF MadeRequest(p).threw THEN Finish(p, History(p), Thrown(MadeRequest(p).error))
     ELSE IF loc[p].remaining = <<>> THEN Finish(p, History(p), Returned(B(TRUE)))
     ELSE Issue(p, History(p), LoopRequest(op[p].name, op[p].args, Head(loc[p].remaining)).functionName,
                LoopRequest(op[p].name, op[p].args, Head(loc[p].remaining)).params,
                [stage |-> "loop", remaining |-> Tail(loc[p].remaining)])

(***************************************************************************)
(* capabilities/search.ts: search, in the two revisions the repository     *)
(* holds (the second asks for one row more and reports hasMore)            *)
(***************************************************************************)
DEFAULT_LIMIT == 24
SearchRevisions == {"fetchrows: limit", "fetchrows: limit + 1"}

\* const { name = fallback } = options
OptionOr(options, name, fallback) ==
  IF Get(options, name).t = "undefined" THEN fallback ELSE Get(options, name)

\* the do_search parameters
searchParams(revision, query, options) ==
  LET limit == OptionOr(options, K("limit"), N(DEFAULT_LIMIT))
      sort == Get(options, K("sort"))
      resourceTypes == Get(options, K("resourceTypes"))
      archive == Get(options, K("archive"))
      dataJoins == Get(options, K("dataJoins"))
  IN << <<K("search"), S(query)>>,
        <<K("order_by"), OptionOr(options, K("orderBy"), S(K("relevance")))>>,
        <<K("offset"), OptionOr(options, K("offset"), N(0))>>,
        <<K("fetchrows"), IF revision = "fetchrows: limit" THEN limit ELSE N(limit.v + 1)>> >>
     \o (IF Truthy(sort) THEN << <<K("sort"), sort>> >> ELSE <<>>)
     \o (IF Truthy(resourceTypes) THEN << <<K("restypes"), resourceTypes>> >> ELSE <<>>)
     \o (IF archive.t # "undefined" THEN << <<K("archive"), archive>> >> ELSE <<>>)
     \o (IF dataJoins.t = "array" /\ Len(dataJoins.v) > 0
         THEN << <<K("data_joins"), S(join(dataJoins.v))>> >> ELSE <<>>)

\* { resources, count, offset } and, in the second revision, the page cut to limit
searchResult(revision, options, resources) ==
  LET limit == OptionOr(options, K("limit"), N(DEFAULT_LIMIT))
      offset == OptionOr(options, K("offset"), N(0))
      rows == ensureArray(resources)
      hasMore == Len(rows) > limit.v
      page == IF hasMore THEN SubSeq(rows, 1, limit.v) ELSE rows
  IN IF revision = "fetchrows: limit"
     THEN Obj(<< <<K("resources"), Arr(rows)>>, <<K("count"), N(Len(rows))>>,
                 <<K("offset"), offset>> >>)
     ELSE Obj(<< <<K("resources"), Arr(page)>>, <<K("count"), N(Len(page))>>,
                 <<K("offset"), offset>>, <<K("hasMore"), B(hasMore)>> >>)

Call_search(p) ==
  /\ pc[p] = "idle"
  /\ \E revision \in SearchRevisions, query \in SearchQueries, options \in SearchOptions :
       /\ Begin(p, "search", [query |-> query, options |-> options])
       /\ Issue(p, <<>>, K("do_search"), searchParams(revision, query, options),
                [stage |-> "do_search", revision |-> revision])

Done_search(p) ==
  /\ Settled(p, "search")
  /\ Resume(p)
  /\ Finish(p, History(p),
            IF MadeRequest(p).threw THEN Thrown(MadeRequest(p).error)
            ELSE Returned(searchResult(loc[p].revision, op[p].args.options, MadeRequest(p).value)))

(***************************************************************************)
(* capabilities/collections.ts                                             *)
(***************************************************************************)
\* { ...row, ref, parent, order_by }: ref and parent read as numbers
normalizeCollection(row) ==
  LET fields == IF row.t = "object" THEN row.v ELSE <<>>
      ref == IF toNumber(Get(fields, K("ref"))).t = "null" THEN N(0) ELSE toNumber(Get(fields, K("ref")))
      parent == IF Get(fields, K("parent")).t = "null" THEN Null ELSE toNumber(Get(fields, K("parent")))
      order_by == IF Get(fields, K("order_by")).t = "undefined" THEN Undef
                  ELSE IF toNumber(Get(fields, K("order_by"))).t = "null" THEN Undef
                  ELSE toNumber(Get(fields, K("order_by")))
  IN Obj(Put(Put(Put(fields, K("ref"), ref), K("parent"), parent), K("order_by"), order_by))

\* const params = {}; if (userId !== undefined) params.user = userId
getCollectionsParams(userId) ==
  IF userId.t = "undefined" THEN <<>> ELSE << <<K("user"), userId>> >>

Call_getCollections(p) ==
  /\ pc[p] = "idle"
  /\ \E userId \in UserIds :
       /\ Begin(p, "getCollections", [userId |-> userId])
       /\ Issue(p, <<>>, K("get_user_collections"), getCollectionsParams(userId), [stage |-> "single"])

Done_getCollections(p) ==
  /\ Settled(p, "getCollections")
  /\ Resume(p)
  /\ Finish(p, History(p),
            IF MadeRequest(p).threw THEN Thrown(MadeRequest(p).error)
            ELSE LET rows == ensureArray(MadeRequest(p).value)
                 IN Returned(Arr([i \in 1..Len(rows) |-> normalizeCollection(rows[i])])))

Call_deleteCollection(p) ==
  /\ pc[p] = "idle"
  /\ \E collectionId \in CollectionIds :
       /\ Begin(p, "deleteCollection", [collectionId |-> collectionId])
       /\ Issue(p, <<>>, K("delete_collection"),
                << <<K("collection"), S(String(collectionId))>> >>, [stage |-> "single"])

Call_addToCollection(p) ==
  /\ pc[p] = "idle"
  /\ \E collectionId \in CollectionIds, resourceId \in ResourceIds :
       /\ Begin(p, "addToCollection", [collectionId |-> collectionId, resourceId |-> resourceId])
       /\ Issue(p, <<>>, K("add_resource_to_collection"),
                << <<K("resource"), S(String(resourceId))>>,
                   <<K("collection"), S(String(collectionId))>> >>,
                [stage |-> "single"])

Call_removeFromCollection(p) ==
  /\ pc[p] = "idle"
  /\ \E collectionId \in CollectionIds, resourceId \in ResourceIds :
       /\ Begin(p, "removeFromCollection", [collectionId |-> collectionId, resourceId |-> resourceId])
       /\ Issue(p, <<>>, K("remove_resource_from_collection"),
                << <<K("resource"), S(String(resourceId))>>,
                   <<K("collection"), S(String(collectionId))>> >>,
                [stage |-> "single"])

\* return result !== false
Done_collectionWrite(p) ==
  /\ \E name \in {"deleteCollection", "addToCollection", "removeFromCollection"} : Settled(p, name)
  /\ Resume(p)
  /\ Finish(p, History(p),
            IF MadeRequest(p).threw THEN Thrown(MadeRequest(p).error)
            ELSE Returned(B(~StrictEquals(MadeRequest(p).value, B(FALSE)))))

(***************************************************************************)
(* The caller takes the result; the client is ready for the next call      *)
(***************************************************************************)
Return(p) ==
  /\ pc[p] = "done"
  /\ pc' = [pc EXCEPT ![p] = "idle"]
  /\ op' = [op EXCEPT ![p] = NoOp]
  /\ calls' = [calls EXCEPT ![p] = <<>>]
  /\ result' = [result EXCEPT ![p] = NoResult]
  /\ loc' = [loc EXCEPT ![p] = NoLoc]
  /\ UNCHANGED <<composition, given, config, accounts, req, resp, made, log>>

Next ==
  \E p \in Procs :
    \/ Remote(p)
    \/ makeRequest_settle(p)
    \/ Call_buildQueryString(p)
    \/ Call_buildSignedQuery(p)
    \/ Call_normalizeResponse(p)
    \/ Call_makeRequest(p)
    \/ Done_makeRequest(p)
    \/ Call_createUser(p)
    \/ createUser_new_user(p)
    \/ createUser_save_user(p)
    \/ createUser_backoff(p)
    \/ Call_search(p)
    \/ Done_search(p)
    \/ Call_getCollections(p)
    \/ Done_getCollections(p)
    \/ Call_deleteCollection(p)
    \/ Call_addToCollection(p)
    \/ Call_removeFromCollection(p)
    \/ Done_collectionWrite(p)
    \/ Call_checkCredentials(p)
    \/ Done_checkCredentials(p)
    \/ Call_saveUser(p)
    \/ Done_saveUser(p)
    \/ Call_batchFieldUpdate(p)
    \/ Call_batchDelete(p)
    \/ Call_batchCollectionAdd(p)
    \/ Call_batchCollectionRemove(p)
    \/ Call_batchNodesAdd(p)
    \/ Call_batchNodesRemove(p)
    \/ Call_batchArchiveStatus(p)
    \/ Done_batchSingle(p)
    \/ Next_batchLoop(p)
    \/ Return(p)

Spec == Init /\ [][Next]_vars

(***************************************************************************)
(* Composition: factories, capability calls and mutation of the client     *)
(* object.  One object is followed at a time: every factory call builds a  *)
(* fresh core, and objects share nothing but the prototype, so the caller  *)
(* lets go of the object it holds before it asks a factory for another.    *)
(***************************************************************************)
calling == <<given, config, accounts, pc, op, loc, req, resp, calls, result, made, log>>

\* key in object: an own property or a method of RSClientCore.prototype
Exposed(props) == DOMAIN props \cup {"makeRequest", "rewriteUrl"}

\* a factory builds a fresh core from the caller's configuration, which the constructor
\* accepts, and applies the capabilities in order; a TypeError leaves the caller without
\* a client
Factory(name, capabilities, callsLeft) ==
  LET built == Built[capabilities]
  IN /\ last' = [NoLast EXCEPT !.kind = name, !.capabilities = capabilities,
                               !.before = Exposed(RSClientCore), !.threw = built.threw]
     /\ IF built.threw THEN UNCHANGED <<client, composed, budget>>
        ELSE /\ client' = [held |-> TRUE, props |-> built.target, withs |-> Len(capabilities)]
             /\ composed' = { capabilities[i] : i \in DOMAIN capabilities }
             /\ budget' = [calls |-> callsLeft, mutations |-> MaxMutations]
     /\ UNCHANGED calling

createClient ==
  /\ ~client.held
  /\ ~validateConfig(given).threw
  /\ \E capabilities \in CapabilityLists :
       Factory("createClient", capabilities, MaxCapabilities - Len(capabilities))

\* createReadOnlyClient and createStandardClient are the same function
createBasicClient ==
  /\ ~client.held
  /\ ~validateConfig(given).threw
  /\ \E name \in {"createBasicClient", "createReadOnlyClient", "createStandardClient"} :
       Factory(name, BasicCapabilities, MaxCapabilities - 1)

createAdminClient ==
  /\ ~client.held
  /\ ~validateConfig(given).threw
  /\ Factory("createAdminClient", AdminCapabilities, MaxCapabilities - 1)

\* the caller applies an exported capability to the client it holds
Call_withCapability ==
  /\ client.held
  /\ budget.calls > 0
  /\ \E cap \in Capabilities :
       LET applied == withCapability(cap, client.props, client.withs + 1)
       IN /\ client' = [client EXCEPT !.props = applied.target, !.withs = @ + 1]
          /\ composed' = IF applied.threw THEN composed ELSE composed \cup {cap}
          /\ last' = [NoLast EXCEPT !.kind = "with", !.capabilities = <<cap>>,
                                    !.before = Exposed(client.props),
                                    !.had = cap \in composed, !.threw = applied.threw]
  /\ budget' = [budget EXCEPT !.calls = @ - 1]
  /\ UNCHANGED calling

\* code holding the client mutates one of its methods
Mutate(kind, key, mutated) ==
  /\ client' = [client EXCEPT !.props = mutated.target]
  /\ last' = [NoLast EXCEPT !.kind = kind, !.key = key, !.before = Exposed(client.props),
                            !.threw = mutated.threw]
  /\ budget' = [budget EXCEPT !.mutations = @ - 1]
  /\ UNCHANGED <<composed, calling>>

\* client[key] = function
Assign_method ==
  /\ client.held
  /\ budget.mutations > 0
  /\ \E key \in MutatedKeys \cap DOMAIN client.props :
       Mutate("assign", key, assignProperty(client.props, key, Fn("caller", key, 0)))

\* delete client[key]
Delete_method ==
  /\ client.held
  /\ budget.mutations > 0
  /\ \E key \in MutatedKeys \cap DOMAIN client.props :
       Mutate("delete", key, deleteProperty(client.props, key))

\* Object.defineProperty(client, key, { value: function, writable: true, configurable: true })
Redefine_method ==
  /\ client.held
  /\ budget.mutations > 0
  /\ \E key \in MutatedKeys \cap DOMAIN client.props :
       Mutate("define", key,
              defineProperty(client.props, key,
                [value |-> Fn("caller", key, 0), writable |-> TRUE, configurable |-> TRUE]))

\* the caller lets go of the client
Discard ==
  /\ client.held
  /\ client' = [held |-> FALSE, props |-> <<>>, withs |-> 0]
  /\ composed' = {}
  /\ last' = [NoLast EXCEPT !.kind = "discard"]
  /\ budget' = [calls |-> 0, mutations |-> 0]
  /\ UNCHANGED calling

ComposeNext ==
  \/ Discard
  \/ createClient
  \/ createBasicClient
  \/ createAdminClient
  \/ Call_withCapability
  \/ Assign_method
  \/ Delete_method
  \/ Redefine_method

\* composition reads nothing of the configuration once the constructor has accepted it:
\* it is followed for one configuration
ComposeInit == Init /\ given = RawConfig(K("admin"), Secret, "apiKey", Undef, Undef, Undef)
ComposeSpec == ComposeInit /\ [][ComposeNext]_vars

(***************************************************************************)
(* Concurrency: two createUser calls on one client, their remote calls and *)
(* responses interleaved in every order                                    *)
(***************************************************************************)
Callers == {1, 2}

ConcurrentInit ==
  /\ given = RawConfig(K("admin"), Secret, "apiKey", Undef, Undef, Undef)
  /\ config = validateConfig(given).value
  /\ accounts = [r \in {} |-> [approved |-> 1, usergroup |-> 0]]
  /\ pc = [p \in Callers |-> "idle"]
  /\ op = [p \in Callers |-> NoOp]
  /\ loc = [p \in Callers |-> NoLoc]
  /\ req = [p \in Callers |-> NoRequest]
  /\ resp = [p \in Callers |-> NoResponse]
  /\ calls = [p \in Callers |-> <<>>]
  /\ result = [p \in Callers |-> NoResult]
  /\ made = [p \in Callers |-> NoMade]
  /\ log = [p \in Callers |-> <<>>]
  /\ client = [held |-> TRUE, props |-> Built[AdminCapabilities].target,
               withs |-> Len(AdminCapabilities)]
  /\ composed = Capabilities
  /\ last = NoLast
  /\ budget = [calls |-> MaxCapabilities - 1, mutations |-> MaxMutations]

\* the callers' inputs and the failures of the network considered here
ConcurrentInputs ==
  { << <<K("username"), S(K("alice"))>>, <<K("email"), S(Email)>>,
       <<K("fullname"), S(<<"Alice", " ", "A">>)>>, <<K("password"), S(K("secret123"))>> >> }
ConcurrentFailures ==
  { Http(503, <<>>), Reject("TimeoutError", <<"The operation was aborted due to timeout">>) }

Concurrent_Remote(p) ==
  /\ pc[p] = "fetch"
  /\ Remote(p)
  /\ resp'[p] \notin FailureResponses \ ConcurrentFailures

Concurrent_createUser(p) ==
  /\ pc[p] = "idle"
  /\ Call_createUser(p)
  /\ op'[p].args \in ConcurrentInputs

ConcurrentNext ==
  \E p \in Callers :
    \/ Concurrent_Remote(p)
    \/ makeRequest_settle(p)
    \/ Concurrent_createUser(p)
    \/ createUser_new_user(p)
    \/ createUser_save_user(p)
    \/ createUser_backoff(p)
    \/ Return(p)

ConcurrentSpec == ConcurrentInit /\ [][ConcurrentNext]_vars

(***************************************************************************)
(* Properties                                                              *)
(***************************************************************************)
\* the request as the remote service reads it off the wire
Wire(request) == parseQuery(stripAuthmode(request.query))
\* the data object of a save_user request, read off the wire
WireData(request) == JSONparse(GetParam(Wire(request), K("data")).v)

\* C1: whenever createUser returns a ref to its caller, the remote account with
\* that ref is pending (approved = 0): a save_user carrying approved=0 has been
\* applied by the remote service.
C1_ReturnedRefIsPending ==
  \A p \in Procs :
    (pc[p] = "done" /\ op[p].name = "createUser" /\ ~result[p].threw)
      => /\ result[p].value.t = "number"
         /\ result[p].value.v \in DOMAIN accounts
         /\ accounts[result[p].value.v].approved = 0

\* C2: the new_user request of createUser carries exactly username and usergroup,
\* usergroup being config.signupUsergroup (9 when not configured), whatever the
\* caller's input holds; email and password are not part of it.
C2_NewUserRequest ==
  \A p \in Procs :
    (op[p].name = "createUser" /\ req[p].functionName = K("new_user"))
      => LET configured == IF given.signupUsergroup.t = "number" THEN given.signupUsergroup.v ELSE 9
             wire == Wire(req[p])
         IN /\ req[p].params = << <<K("username"), Get(op[p].args, K("username"))>>,
                                  <<K("usergroup"), N(configured)>> >>
            /\ [i \in 1..Len(wire) |-> wire[i][1]]
                 = <<K("user"), K("function"), K("username"), K("usergroup")>>
            /\ GetParam(wire, K("usergroup")) = S(<<ToString(configured)>>)
            /\ GetParam(wire, K("username")) = Get(op[p].args, K("username"))
            /\ ~Has(wire, K("email")) /\ ~Has(wire, K("password"))

C2_Witness ==
  \E p \in Procs :
    /\ op[p].name = "createUser" /\ req[p].functionName = K("new_user")
    /\ resp[p].kind = "http"
    /\ Get(op[p].args, K("usergroup")) = N(1)
    /\ Has(op[p].args, K("password"))

\* C3: after new_user has returned a ref, createUser makes its save_user attempts
\* one after another, at most 3: an attempt is made only after the one before it
\* failed, and when all 3 failed createUser throws a SecurityError naming the ref,
\* having made exactly 4 remote calls.
C3_SaveUserRetries ==
  \A p \in Procs :
    op[p].name = "createUser"
      => LET h == calls[p]
         IN /\ Len(h) <= 4
            /\ \A i \in 1..Len(h) :
                 /\ h[i].functionName = (IF i = 1 THEN K("new_user") ELSE K("save_user"))
                 /\ i < Len(h) => h[i].outcome # "pending"
                 /\ i >= 2 => h[i-1].outcome = (IF i = 2 THEN "returned" ELSE "threw")
            /\ Cardinality({i \in 1..Len(h) : h[i].functionName = K("save_user")}) <= 3
            /\ pc[p] = "timer" => h[Len(h)].outcome = "threw"
            /\ (pc[p] = "done" /\ Len(h) = 4 /\ h[4].outcome = "threw")
                 => /\ result[p].threw
                    /\ result[p].error.name = "SecurityError"
                    /\ \E i \in 1..Len(result[p].error.message) :
                         <<result[p].error.message[i]>> = String(loc[p].ref)
            /\ (pc[p] = "done" /\ result[p].threw /\ result[p].error.name = "SecurityError")
                 => Len(h) = 4 /\ \A i \in 2..4 : h[i].outcome = "threw"
            /\ (pc[p] = "done" /\ Len(h) >= 2 /\ Len(h) < 4) => h[Len(h)].outcome = "returned"

C3_Witness ==
  \E p \in Procs :
    /\ op[p].name = "createUser" /\ pc[p] = "done"
    /\ Len(calls[p]) = 4
    /\ result[p].threw /\ result[p].error.name = "SecurityError"

\* C4: the keys of the data object saveUser transmits to save_user are among
\* fullname, email, password and comments, and each transmitted key carries the
\* caller's value.
C4_SaveUserAllowlist ==
  \A p \in Procs :
    (op[p].name = "saveUser" /\ req[p].functionName = K("save_user"))
      => /\ WireData(req[p]).ok
         /\ WireData(req[p]).val.t = "object"
         /\ \A key \in Keys(WireData(req[p]).val.v) :
              /\ key \in {K("fullname"), K("email"), K("password"), K("comments")}
              /\ Get(WireData(req[p]).val.v, key) = Get(op[p].args.data, key)

C4_Witness ==
  \E p \in Procs :
    /\ op[p].name = "saveUser" /\ req[p].functionName = K("save_user")
    /\ Has(op[p].args.data, K("approved"))
    /\ Keys(WireData(req[p]).val.v) = {K("email"), K("password"), K("comments")}

\* C5: when the allow-list leaves no field of the caller's map, saveUser fails
\* with SecurityError and has issued no remote call.
C5_NothingToSave ==
  \A p \in Procs :
    (op[p].name = "saveUser"
       /\ \A i \in 1..Len(op[p].args.data) :
            \/ op[p].args.data[i][1] \notin {K("fullname"), K("email"), K("password"), K("comments")}
            \/ op[p].args.data[i][2].t = "undefined")
      => /\ pc[p] = "done"
         /\ result[p].threw /\ result[p].error.name = "SecurityError"
         /\ calls[p] = <<>>
         /\ req[p] = NoRequest

C5_Witness ==
  \E p \in Procs :
    /\ op[p].name = "saveUser" /\ pc[p] = "done"
    /\ Keys(op[p].args.data) = {K("usergroup"), K("approved")}
    /\ result[p].threw /\ result[p].error.name = "SecurityError"
    /\ calls[p] = <<>>

\* C6: buildSignedQuery returns the same sign in apiKey mode and in sessionKey
\* mode; the sign is taken of the query without an authmode marker, the apiKey
\* query is that signed string and the sessionKey query is that signed string
\* followed by &authmode=sessionkey.
C6_SignIgnoresAuthMode ==
  \A p \in Procs :
    (pc[p] = "done" /\ op[p].name = "buildSignedQuery")
      => LET out == result[p].value
             signed == out.apiKey.query
         IN /\ out.apiKey.sign = out.sessionKey.sign
            /\ out.apiKey.sign = <<"sha256", op[p].args.secret \o signed>>
            /\ \A i \in 1..Len(signed) : signed[i] # "authmode"
            /\ out.sessionKey.query = signed \o <<"&", "authmode", "=", "sessionkey">>

C6_Witness ==
  \E p \in Procs :
    /\ pc[p] = "done" /\ op[p].name = "buildSignedQuery"
    /\ Len(op[p].args.params) = 2
    /\ result[p].value.sessionKey.query # result[p].value.apiKey.query

\* the pairs buildQueryString wrote after the leading user pair, read back
WrittenParams(p) == Tail(parseQuery(result[p].value.v))

\* C7: in the string built by buildQueryString no key of the map whose value is
\* null or undefined appears, neither with the text null/undefined nor with an
\* empty value, and every key with any other value appears with that value.
C7_NullishOmitted ==
  \A p \in Procs :
    (pc[p] = "done" /\ op[p].name = "buildQueryString")
      => LET params == op[p].args.params
             written == WrittenParams(p)
         IN /\ Len(parseQuery(result[p].value.v)) >= 1
            /\ parseQuery(result[p].value.v)[1] = <<K("user"), op[p].args.user>>
            /\ \A i \in 1..Len(params) :
                 IF params[i][2].t \in {"null", "undefined"}
                 THEN \A j \in 1..Len(written) : written[j][1] # params[i][1]
                 ELSE \E j \in 1..Len(written) :
                        /\ written[j][1] = params[i][1]
                        /\ written[j][2] = String(params[i][2])
            /\ Len(written) = Cardinality({i \in 1..Len(params) :
                                             params[i][2].t \notin {"null", "undefined"}})

C7_Witness ==
  \E p \in Procs :
    /\ pc[p] = "done" /\ op[p].name = "buildQueryString"
    /\ op[p].args.params = << <<K("param1"), Null>>, <<K("param2"), S(<<>>)>> >>
    /\ WrittenParams(p) = << <<K("param2"), <<>>>> >>

\* C8: for every call makeRequest(functionName, params), whatever keys params
\* holds, the query signed and transmitted begins with
\* user=<configured user>&function=<functionName>.
C8_FunctionIsTheArgument ==
  \A p \in Procs :
    (op[p].name = "makeRequest" /\ pc[p] = "fetch")
      => /\ Len(Wire(req[p])) >= 2
         /\ Wire(req[p])[1] = <<K("user"), config.user.v>>
         /\ Wire(req[p])[2] = <<K("function"), op[p].args.functionName>>
         /\ GetParam(Wire(req[p]), K("function")) = S(op[p].args.functionName)

\* C9: each of the seven batch operations fails with BatchSizeLimitError, having
\* issued no remote call, when the resource-id list is longer than
\* config.maxBatchSize (100 when unconfigured); a list of exactly that many ids
\* is not rejected by the limit.
BatchOperations ==
  {"batchFieldUpdate", "batchDelete", "batchCollectionAdd", "batchCollectionRemove",
   "batchNodesAdd", "batchNodesRemove", "batchArchiveStatus"}
C9_BatchLimit ==
  \A p \in Procs :
    op[p].name \in BatchOperations
      => LET limit == IF given.maxBatchSize.t = "number" THEN given.maxBatchSize.v ELSE 100
             rejected == /\ pc[p] = "done" /\ result[p].threw
                         /\ result[p].error.name = "BatchSizeLimitError"
         IN /\ Len(op[p].args.resourceIds) > limit => (rejected /\ calls[p] = <<>> /\ req[p] = NoRequest)
            /\ Len(op[p].args.resourceIds) <= limit => ~rejected

C9_Witness ==
  \E p \in Procs :
    /\ op[p].name = "batchCollectionRemove" /\ pc[p] = "done"
    /\ given.maxBatchSize.t = "undefined"
    /\ Len(op[p].args.resourceIds) = 101
    /\ result[p].threw /\ result[p].error.name = "BatchSizeLimitError"
    /\ calls[p] = <<>>

\* a batch operation given exactly the limit has gone through all its requests
C9_AtLimitProceeds ==
  \E p \in Procs :
    /\ op[p].name = "batchCollectionAdd" /\ pc[p] = "done"
    /\ given.maxBatchSize.t = "undefined"
    /\ Len(op[p].args.resourceIds) = 100 /\ Len(calls[p]) = 100
    /\ ~result[p].threw

\* C10: makeRequest never returns a value for a response whose status is 401, 403
\* or at least 500: 401 and 403 raise PermissionError, 500 and above raise
\* ResourceSpaceError carrying the function name and the status code, in every
\* case before the body is read.
C10_StatusBeforeBody ==
  \A p \in Procs :
    (pc[p] = "settled" /\ resp[p].kind = "http")
      => /\ resp[p].status \in {401, 403}
              => /\ made[p].threw /\ ~made[p].bodyRead
                 /\ made[p].error.name = "PermissionError"
                 /\ made[p].error.functionName = req[p].functionName
         /\ resp[p].status >= 500
              => /\ made[p].threw /\ ~made[p].bodyRead
                 /\ made[p].error.name = "ResourceSpaceError"
                 /\ made[p].error.functionName = req[p].functionName
                 /\ made[p].error.statusCode = N(resp[p].status)

C10_Witness ==
  \E p \in Procs :
    /\ pc[p] = "settled" /\ resp[p].kind = "http"
    /\ resp[p].status = 403 /\ resp[p].text = <<"[", "]">>
    /\ made[p].threw /\ made[p].error.name = "PermissionError"

C10_ServerErrorWitness ==
  \E p \in Procs :
    /\ pc[p] = "settled" /\ resp[p].kind = "http"
    /\ resp[p].status = 503
    /\ made[p].threw /\ made[p].error.statusCode = N(503)

\* the body as JSON.parse reads it, and the string it holds read once more
BodyParsed(p) == JSONparse(resp[p].text)
BodyParsedTwice(p) ==
  IF BodyParsed(p).ok /\ BodyParsed(p).val.t = "string"
  THEN JSONparse(BodyParsed(p).val.v) ELSE [ok |-> FALSE, val |-> Undef]

\* C11 as stated: a string makeRequest returns never parses as JSON.
C11_ReturnedStringNeverParses ==
  \A p \in Procs :
    (pc[p] = "settled" /\ ~made[p].threw /\ made[p].value.t = "string")
      => ~JSONparse(made[p].value.v).ok

\* C11 amended: makeRequest resolves JSON encoding to a depth of two. The body
\* is parsed, and when that yields a string which parses as JSON the string is
\* parsed once more and the parsed value is returned; a returned string parses
\* as JSON only when the body held it as a JSON string literal inside another
\* JSON string literal.
C11_TwoLevelsResolved ==
  \A p \in Procs :
    (pc[p] = "settled" /\ ~made[p].threw)
      => /\ made[p].bodyRead
         /\ BodyParsedTwice(p).ok
              => /\ made[p].value.t = BodyParsedTwice(p).val.t
                 /\ made[p].value = BodyParsedTwice(p).val
         /\ (made[p].value.t = "string" /\ JSONparse(made[p].value.v).ok)
              => /\ BodyParsedTwice(p).ok
                 /\ BodyParsedTwice(p).val.t = "string"
                 /\ BodyParsedTwice(p).val.v = made[p].value.v

C11_Witness ==
  \E p \in Procs :
    /\ pc[p] = "settled" /\ ~made[p].threw
    /\ resp[p].text = <<"\"", "[", "1", "]", "\"">>
    /\ made[p].value.t = "array"

\* a returned string that still parses: the body held "42" two literals deep
C11_StillEncoded ==
  \E p \in Procs :
    /\ pc[p] = "settled" /\ ~made[p].threw
    /\ made[p].value.t = "string" /\ JSONparse(made[p].value.v).ok

\* the rules of normalizeResponse that a text matches
DeniedText(text) ==
  \/ includesPhrase(toLowerCase(text), "permission", "denied")
  \/ includesPhrase(toLowerCase(text), "access", "denied")
ErrorText(text) == startsWithError(toLowerCase(text)) \/ includesErrorColon(toLowerCase(text))

\* C12: for a string input the failure-phrase scan comes before any parse: text
\* containing 'permission denied' or 'access denied' raises PermissionError (this
\* wins over the general rule); otherwise text that starts with 'error' or holds
\* 'error:' raises ResourceSpaceError whose detail is at most the first 200
\* characters of the text; in neither case is the string parsed or returned,
\* even when it is valid JSON.
C12_PhraseScanFirst ==
  \A p \in Procs :
    (pc[p] = "done" /\ op[p].name = "normalizeResponse" /\ op[p].args.data.t = "string")
      => LET text == op[p].args.data.v
         IN /\ DeniedText(text)
                 => /\ result[p].threw
                    /\ result[p].error.name = "PermissionError"
                    /\ result[p].error.functionName = op[p].args.functionName
            /\ (ErrorText(text) /\ ~DeniedText(text))
                 => /\ result[p].threw
                    /\ result[p].error.name = "ResourceSpaceError"
                    /\ result[p].error.functionName = op[p].args.functionName
                    /\ result[p].error.rsError.t = "string"
                    /\ length(result[p].error.rsError.v) <= 200
                    /\ result[p].error.rsError.v = substring(text, length(result[p].error.rsError.v))
                    /\ length(text) <= 200 => result[p].error.rsError.v = text
                    /\ length(text) > 200 => length(result[p].error.rsError.v) = 200

C12_Witness ==
  \E p \in Procs :
    /\ pc[p] = "done" /\ op[p].name = "normalizeResponse"
    /\ op[p].args.data = S(<<"\"", "error", ":", " ", "x", "\"">>)
    /\ JSONparse(op[p].args.data.v).ok
    /\ result[p].threw /\ result[p].error.name = "ResourceSpaceError"

\* the excerpt of a text longer than 200 characters
C12_LongTextWitness ==
  \E p \in Procs :
    /\ pc[p] = "done" /\ op[p].name = "normalizeResponse"
    /\ op[p].args.data.t = "string" /\ length(op[p].args.data.v) = 258
    /\ result[p].threw /\ result[p].error.name = "ResourceSpaceError"
    /\ length(result[p].error.rsError.v) = 200

\* the permission rule wins over the general one
C12_PermissionWinsWitness ==
  \E p \in Procs :
    /\ pc[p] = "done" /\ op[p].name = "normalizeResponse"
    /\ op[p].args.data = S(<<"Error", ":", " ", "access", " ", "denied">>)
    /\ result[p].threw /\ result[p].error.name = "PermissionError"

\* C13: for every raw input that matches no error rule normalizeResponse returns
\* without raising: null or undefined yields null, a string that parses as JSON
\* yields the parsed value, a string that does not parse is returned unchanged,
\* and an object or array without an error field is returned unchanged.
C13_NoRuleNoError ==
  \A p \in Procs :
    (pc[p] = "done" /\ op[p].name = "normalizeResponse")
      => LET data == op[p].args.data
             noRule == CASE data.t = "string" -> ~DeniedText(data.v) /\ ~ErrorText(data.v)
                         [] data.t = "object" -> \A i \in 1..Len(data.v) : data.v[i][1] # <<"error">>
                         [] OTHER -> TRUE
         IN noRule
              => /\ ~result[p].threw
                 /\ data.t \in {"null", "undefined"} => result[p].value.t = "null"
                 /\ (data.t = "string" /\ JSONparse(data.v).ok)
                      => /\ result[p].value.t = JSONparse(data.v).val.t
                         /\ result[p].value = JSONparse(data.v).val
                 /\ (data.t = "string" /\ ~JSONparse(data.v).ok)
                      => /\ result[p].value.t = "string"
                         /\ result[p].value.v = data.v
                 /\ data.t \in {"object", "array", "number", "boolean"}
                      => /\ result[p].value.t = data.t
                         /\ result[p].value = data

C13_Witness ==
  \E p \in Procs :
    /\ pc[p] = "done" /\ op[p].name = "normalizeResponse"
    /\ op[p].args.data.t = "string"
    /\ op[p].args.data.v = <<"https", ":", "/", "/", "dam.example.com", "/", "pages", "/",
                             "download.php", "?", "ref", "=", "42">>
    /\ ~result[p].threw /\ result[p].value = op[p].args.data

\* a string that parses yields the parsed value
C13_ParsedWitness ==
  \E p \in Procs :
    /\ pc[p] = "done" /\ op[p].name = "normalizeResponse"
    /\ op[p].args.data.t = "string" /\ op[p].args.data.v # <<"42">> /\ JSONparse(op[p].args.data.v).ok
    /\ ~result[p].threw /\ result[p].value.t = "object"
    /\ Get(result[p].value.v, K("ref")) = N(42)

\* C14 as stated: for an object carrying an error field, whatever its value,
\* normalizeResponse raises a ResourceSpaceError carrying the function name whose
\* detail (rsError) is the value of the error field.
C14_DetailIsErrorField ==
  \A p \in Procs :
    (pc[p] = "done" /\ op[p].name = "normalizeResponse"
       /\ op[p].args.data.t = "object" /\ Has(op[p].args.data.v, K("error")))
      => /\ result[p].threw
         /\ result[p].error.name = "ResourceSpaceError"
         /\ result[p].error.functionName = op[p].args.functionName
         /\ result[p].error.rsError.t = Get(op[p].args.data.v, K("error")).t
         /\ result[p].error.rsError = Get(op[p].args.data.v, K("error"))

\* C14 amended: for an object carrying an error field, whatever its value,
\* normalizeResponse raises a ResourceSpaceError carrying the function name; the
\* detail (rsError) is the value of the error field when that value is truthy,
\* and the text 'Unknown error' when it is falsy ('', 0, false, null, undefined).
C14_DetailIsErrorFieldOrUnknown ==
  \A p \in Procs :
    (pc[p] = "done" /\ op[p].name = "normalizeResponse"
       /\ op[p].args.data.t = "object" /\ Has(op[p].args.data.v, K("error")))
      => LET field == Get(op[p].args.data.v, K("error"))
             falsy == \/ field.t \in {"null", "undefined", "NaN"}
                      \/ field.t = "string" /\ field.v = <<>>
                      \/ field.t = "number" /\ field.v = 0
                      \/ field.t = "boolean" /\ ~field.v
         IN /\ result[p].threw
            /\ result[p].error.name = "ResourceSpaceError"
            /\ result[p].error.functionName = op[p].args.functionName
            /\ result[p].error.statusCode.t = "undefined"
            /\ ~falsy => (result[p].error.rsError.t = field.t /\ result[p].error.rsError = field)
            /\ falsy => (result[p].error.rsError.t = "string"
                         /\ result[p].error.rsError.v = <<"Unknown error">>)

C14_Witness ==
  \E p \in Procs :
    /\ pc[p] = "done" /\ op[p].name = "normalizeResponse"
    /\ op[p].args.data = Obj(<< <<K("error"), S(<<>>)>> >>)
    /\ result[p].threw /\ result[p].error.rsError = S(<<"Unknown error">>)

\* a truthy error field is the detail
C14_TruthyWitness ==
  \E p \in Procs :
    /\ pc[p] = "done" /\ op[p].name = "normalizeResponse"
    /\ op[p].args.data.t = "object"
    /\ result[p].threw /\ result[p].error.rsError = S(<<"Something", " ", "went", " ", "wrong">>)

\* the secret values handed to the operation in progress, and the client's own
SuppliedSecrets(p) ==
  LET fields == CASE op[p].name = "createUser" -> op[p].args
                  [] op[p].name = "saveUser" -> op[p].args.data
                  [] op[p].name = "checkCredentials" -> << <<K("password"), S(op[p].args.password)>> >>
                  [] op[p].name = "makeRequest" -> op[p].args.params
                  [] OTHER -> <<>>
  IN { fields[i][2].v : i \in { j \in 1..Len(fields) :
                                  /\ fields[j][1] \in {K("password"), K("secret"), K("key"), K("session_key")}
                                  /\ fields[j][2].t = "string" /\ fields[j][2].v # <<>> } }
     \cup { config.secret.v }

\* the text holds the word sequence
Contains(text, words) ==
  \E i \in 1..(Len(text) - Len(words) + 1) : SubSeq(text, i, i + Len(words) - 1) = words

\* a value handed to the logger shows the words, at any depth
RECURSIVE Mentions(_, _)
Mentions(x, words) ==
  CASE x.t = "string" -> Contains(x.v, words)
    [] x.t = "object" -> \E i \in 1..Len(x.v) : Mentions(x.v[i][2], words)
    [] x.t = "array" -> \E i \in 1..Len(x.v) : Mentions(x.v[i], words)
    [] OTHER -> FALSE

\* C15: for every operation and every logger, no password, secret, key or
\* session-key value supplied to the operation appears in any argument passed
\* to the logger.
C15_NoSecretLogged ==
  \A p \in Procs :
    \A i \in 1..Len(log[p]) :
      \A secret \in SuppliedSecrets(p) :
        /\ ~Contains(log[p][i].msg, secret)
        /\ ~Mentions(log[p][i].data, secret)
        /\ "message" \in DOMAIN log[p][i].error => ~Contains(log[p][i].error.message, secret)

\* what redactParams does achieve: a sensitive key of the request parameters
\* is shown as '***'
C15_RedactedReached ==
  \E p \in Procs :
    /\ op[p].name = "checkCredentials" /\ pc[p] = "fetch"
    /\ Len(log[p]) = 1
    /\ Get(Get(log[p][1].data.v, K("params")).v, K("password")) = S(<<"***">>)

(***************************************************************************)
(* Composition                                                             *)
(***************************************************************************)
\* the keys a capability attaches
MethodNames(cap) == { methods(cap)[i] : i \in DOMAIN methods(cap) }

C17_AttachedMethodsStay ==
  client.held =>
    \A cap \in composed : \A name \in MethodNames(cap) :
      /\ name \in DOMAIN client.props
      /\ client.props[name].value.owner = cap

\* C18: applying a capability to a client that already has it completes without error
\* and leaves the client with the same members, the capability's methods among them
\* with the capability's behaviour.
C18_SecondApplicationIdempotent ==
  (last.kind = "with" /\ last.had) =>
    /\ ~last.threw
    /\ Exposed(client.props) = last.before
    /\ \A name \in MethodNames(last.capabilities[1]) :
         name \in DOMAIN client.props /\ client.props[name].value.owner = last.capabilities[1]

\* C19: when cap(c1) has returned, c1 exposes exactly the members it exposed before the
\* call.
C19_ArgumentKeepsItsMembers ==
  (last.kind = "with" /\ ~last.threw) => Exposed(client.props) = last.before

\* C20: the client createReadOnlyClient returns has none of the write and delete
\* methods as a member.
C20_ReadOnlyClientCannotWrite ==
  (last.kind = "createReadOnlyClient" /\ ~last.threw) =>
    {"createResource", "copyResource", "deleteResource", "createCollection",
     "deleteCollection", "addToCollection", "removeFromCollection", "shareCollection",
     "setNode", "updateField"} \cap Exposed(client.props) = {}

(***************************************************************************)
(* Failures                                                                *)
(***************************************************************************)
\* C21: an operation other than createUser that fails has had none of its remote calls
\* carried out: no call it made before the failing one returned a result.
C21_OnlyCreateUserFailsHalfway ==
  \A p \in Procs :
    (pc[p] = "done" /\ result[p].threw /\ op[p].name # "createUser") =>
      \A i \in DOMAIN calls[p] : calls[p][i].outcome # "returned"

\* C30: batchCollectionAdd and batchCollectionRemove return true only if every one of
\* their per-id calls returned a value other than false: no step in which one of them
\* returns true follows a call that returned false.
C30_TrueOnlyIfNoCallReturnedFalse ==
  [][\A p \in Procs :
       (/\ pc[p] = "settled"
        /\ op[p].name \in {"batchCollectionAdd", "batchCollectionRemove"}
        /\ ~made[p].threw
        /\ StrictEquals(made[p].value, B(FALSE))) =>
         ~(pc'[p] = "done" /\ ~result'[p].threw /\ StrictEquals(result'[p].value, B(TRUE)))]_vars

\* createUser steps taken once a remote call has settled
NewUserReturned(p) ==
  /\ Settled(p, "createUser")
  /\ req[p].functionName = K("new_user")
  /\ ~made[p].threw
SaveUserSettled(p) ==
  /\ Settled(p, "createUser")
  /\ req[p].functionName = K("save_user")
ReturnsRefAfterSaveUser(p) ==
  /\ SaveUserSettled(p) /\ ~made[p].threw
  /\ result'[p] = Returned(loc[p].ref)
ThrowsSecurityErrorNamingRef(p) ==
  /\ SaveUserSettled(p) /\ made[p].threw
  /\ result'[p].threw
  /\ result'[p].error.name = "SecurityError"
  /\ \E i \in 1..Len(result'[p].error.message) :
       <<result'[p].error.message[i]>> = String(loc[p].ref)
ThrowsInvalidRef(p) ==
  /\ NewUserReturned(p)
  /\ newUserRef(made[p].value).t = "null"
  /\ result'[p] = Thrown(Error(<<"new_user returned invalid ref">>))
  /\ Len(calls'[p]) = 1

\* C27 as stated: once new_user has returned without error, createUser ends either by
\* returning the ref after a save_user call that did not fail or by throwing a
\* SecurityError naming the ref, and never without a save_user attempt.
C27_EndsInOneOfTwoWays ==
  [][\A p \in Procs :
       ((NewUserReturned(p) \/ SaveUserSettled(p)) /\ pc'[p] = "done") =>
          (ReturnsRefAfterSaveUser(p) \/ ThrowsSecurityErrorNamingRef(p))]_vars

\* C27 (amended): once new_user has returned without error, createUser ends in one of
\* three ways: it returns the ref after a save_user call that did not fail; it throws a
\* SecurityError naming the ref after a failed save_user attempt; or, exactly when the
\* value new_user returned holds no number, it throws the plain Error "new_user
\* returned invalid ref" having made no save_user attempt.  A value that holds a number
\* is always followed by a save_user attempt.
C27_EndsInOneOfThreeWays ==
  [][\A p \in Procs :
       /\ ((NewUserReturned(p) \/ SaveUserSettled(p)) /\ pc'[p] = "done") =>
             (ReturnsRefAfterSaveUser(p) \/ ThrowsSecurityErrorNamingRef(p) \/ ThrowsInvalidRef(p))
       /\ (NewUserReturned(p) /\ pc'[p] # "settled") =>
             IF newUserRef(made[p].value).t = "null"
             THEN pc'[p] = "done" /\ ThrowsInvalidRef(p)
             ELSE /\ pc'[p] = "fetch"
                  /\ req'[p].functionName = K("save_user")
                  /\ calls'[p][Len(calls'[p])].functionName = K("save_user")]_vars

\* createUser has thrown "new_user returned invalid ref" after its only remote call,
\* new_user, returned a value
C27_Witness ==
  \E p \in Procs :
    /\ pc[p] = "done" /\ op[p].name = "createUser"
    /\ result[p] = Thrown(Error(<<"new_user returned invalid ref">>))
    /\ Len(calls[p]) = 1
    /\ calls[p][1].functionName = K("new_user") /\ calls[p][1].outcome = "returned"

\* the value makeRequest hands to normalizeResponse
BodyData(p) == IF BodyParsed(p).ok THEN BodyParsed(p).val ELSE S(resp[p].text)

\* C25: every failure of makeRequest reaches the caller as a ResourceSpaceError or a
\* PermissionError whose functionName is the functionName of the call; an error raised
\* as a ResourceSpaceError by the status checks or by normalizeResponse reaches the
\* caller as it was raised, and a failure of fetch (timeout, network) is wrapped in a
\* ResourceSpaceError that keeps the original error as cause.
C25_FailuresCarryFunctionName ==
  \A p \in Procs :
    (pc[p] = "settled" /\ made[p].threw) =>
      /\ IsResourceSpaceError(made[p].error)
      /\ made[p].error.functionName = req[p].functionName
      /\ resp[p].kind = "reject" =>
            /\ ~IsResourceSpaceError(resp[p].error)
            /\ made[p].error.name = "ResourceSpaceError"
            /\ made[p].error.cause = resp[p].error
      /\ resp[p].kind = "http" =>
            /\ made[p].error.cause = Undef
            /\ resp[p].status >= 500 =>
                  made[p].error = ResourceSpaceError(<<"ResourceSpace server error: ", ToString(resp[p].status)>>,
                                                     req[p].functionName, N(resp[p].status), Undef, Undef)
            /\ resp[p].status \in {401, 403} =>
                  made[p].error = PermissionError(req[p].functionName, S(<<"HTTP ", ToString(resp[p].status)>>))
            /\ made[p].bodyRead =>
                  made[p].error = normalizeResponse(BodyData(p), req[p].functionName).error

\* a timeout has reached the caller wrapped, with the original error as cause
C25_Witness ==
  \E p \in Procs :
    /\ pc[p] = "settled" /\ made[p].threw
    /\ resp[p].kind = "reject" /\ resp[p].error.name = "TimeoutError"
    /\ made[p].error.name = "ResourceSpaceError"
    /\ made[p].error.cause = resp[p].error
    /\ made[p].error.functionName = req[p].functionName

\* an error text in the body has reached the caller as normalizeResponse raised it
C25_BodyErrorWitness ==
  \E p \in Procs :
    /\ pc[p] = "settled" /\ made[p].threw /\ made[p].bodyRead
    /\ made[p].error.name = "ResourceSpaceError"
    /\ made[p].error.rsError # Undef

\* C28: no value makeRequest returns is an object carrying an error field, whatever the
\* response body, a body whose JSON value is a string encoding an object included.
C28_NoErrorObjectReturned ==
  \A p \in Procs :
    (pc[p] = "settled" /\ ~made[p].threw) =>
      ~(made[p].value.t = "object" /\ Has(made[p].value.v, K("error")))

\* what makeRequest can return for the request in flight when it does not fail
Unfailed(p) ==
  { r \in { makeRequestResult(req[p].functionName, outcome[1]) :
              outcome \in RemoteOutcomes(config, req[p], accounts) } : ~r.threw }

\* C23: when the remote call of a capability operation fails, the operation reports the
\* failure: it does not end by returning a value that it also returns for some call
\* that did not fail.
C23_FailureIsReported ==
  [][\A p \in Procs :
       (pc[p] = "settled" /\ made[p].threw /\ pc'[p] = "done") =>
          \/ result'[p].threw
          \/ /\ op[p].name = "checkCredentials"
             /\ \A r \in Unfailed(p) : checkCredentialsResult(r) # result'[p]
          \/ /\ op[p].name = "saveUser"
             /\ \A r \in Unfailed(p) : saveUserResult(r) # result'[p]]_vars

\* the operations that take an identifier, and the identifiers a call was given
IdOperations ==
  BatchOperations \cup {"saveUser", "getCollections", "deleteCollection", "addToCollection",
                        "removeFromCollection"}
IdArguments(o) ==
  UNION { IF field \notin DOMAIN o.args THEN {}
          ELSE IF field \in {"resourceIds", "nodeIds"}
          THEN {o.args[field][i] : i \in 1..Len(o.args[field])}
          ELSE IF o.args[field].t = "undefined" THEN {}
          ELSE {o.args[field]} :
          field \in {"resourceIds", "nodeIds", "fieldId", "collectionId", "resourceId",
                     "userRef", "userId"} }
IsPositiveInteger(id) == id.t = "number" /\ id.v > 0
OverLimit(o) ==
  /\ "resourceIds" \in DOMAIN o.args
  /\ Len(o.args.resourceIds) > batchMax(config)

\* C22: an operation given a resource, collection, field, node or user identifier that
\* is not a positive integer fails with ValidationError and issues no remote call.
C22_InvalidIdIsRejected ==
  \A p \in Procs :
    (/\ op[p].name \in IdOperations
     /\ ~OverLimit(op[p])
     /\ \E id \in IdArguments(op[p]) : ~IsPositiveInteger(id)) =>
      /\ pc[p] = "done"
      /\ result[p].threw
      /\ result[p].error.name = "ValidationError"
      /\ calls[p] = <<>>

\* the keys named user in the query of the request in flight
UserKeys(p) ==
  LET pairs == parseQuery(stripAuthmode(req[p].query))
  IN {i \in 1..Len(pairs) : pairs[i][1] = K("user")}

\* C29: the query a capability operation sends holds the key user exactly once, and
\* its value is the configured principal.
C29_OneUserKey ==
  \A p \in Procs :
    (op[p].name \in IdOperations \cup {"createUser", "checkCredentials"} /\ pc[p] = "fetch") =>
      /\ Cardinality(UserKeys(p)) = 1
      /\ \A i \in UserKeys(p) : parseQuery(stripAuthmode(req[p].query))[i][2] = config.user.v

\* the parameters of the request in flight as the service reads them off the wire
WireParam(p, name) == GetParam(Wire(req[p]), name)

\* C24: search issues one do_search request carrying search=query, fetchrows equal to
\* the caller's limit (24 when omitted), offset equal to the caller's offset (0 when
\* omitted), order_by=relevance when no orderBy is given, and no key named limit.
C24_SearchParameters ==
  \A p \in Procs :
    op[p].name = "search" =>
      /\ Len(calls[p]) = 1
      /\ calls[p][1].functionName = K("do_search")
      /\ pc[p] = "fetch" =>
            LET options == op[p].args.options
            IN /\ WireParam(p, K("function")) = S(K("do_search"))
               /\ WireParam(p, K("search")) = S(op[p].args.query)
               /\ WireParam(p, K("fetchrows")) = S(String(OptionOr(options, K("limit"), N(24))))
               /\ WireParam(p, K("offset")) = S(String(OptionOr(options, K("offset"), N(0))))
               /\ Get(options, K("orderBy")).t = "undefined" =>
                     WireParam(p, K("order_by")) = S(K("relevance"))
               /\ WireParam(p, K("limit")) = Undef

\* the ref a save_user request carries on the wire
WireRef(request) == GetParam(Wire(request), K("ref"))
SaveUserAttempts(history) == {i \in 1..Len(history) : history[i].functionName = K("save_user")}
\* what a createUser call holds of its own: position, locals, request, history
Own(p) == <<pc[p], op[p], loc[p], req[p], calls[p]>>

\* C26: with two createUser calls interleaved on one client, every save_user request a
\* call issues carries the ref this call read from the answer to its own new_user; a
\* call makes at most 3 save_user attempts, each one after its own previous attempt
\* failed; and no step of one call changes anything the other call holds.
C26_CallsShareNoState ==
  [][\A p \in Callers :
       /\ (NewUserReturned(p) /\ pc'[p] = "fetch") =>
             /\ loc'[p].ref = newUserRef(made[p].value)
             /\ WireRef(req'[p]) = S(String(newUserRef(made[p].value)))
       /\ (loc[p].stage \in {"save_user", "backoff"} /\ pc'[p] # "idle") =>
             loc'[p].ref = loc[p].ref
       /\ (pc'[p] = "fetch" /\ req'[p].functionName = K("save_user")) =>
             WireRef(req'[p]) = S(String(loc'[p].ref))
       /\ Cardinality(SaveUserAttempts(calls'[p])) <= MAX_RETRIES
       /\ \A i \in SaveUserAttempts(calls'[p]) :
             i >= 3 => calls'[p][i - 1].outcome = "threw"
       /\ (pc[p] = "timer" /\ pc'[p] = "fetch") =>
             /\ calls[p][Len(calls[p])].outcome = "threw"
             /\ loc'[p].attempt = loc[p].attempt + 1
       /\ \A q \in Callers \ {p} : Own(p)' # Own(p) => Own(q)' = Own(q)]_vars

\* both calls have read their refs, which differ, and are at different attempts: one is
\* making its third save_user attempt while the other is making its first
C26_Witness ==
  \E p \in Callers, q \in Callers :
    /\ p # q
    /\ pc[p] = "fetch" /\ req[p].functionName = K("save_user") /\ loc[p].attempt = 3
    /\ pc[q] = "fetch" /\ req[q].functionName = K("save_user") /\ loc[q].attempt = 1
    /\ loc[p].ref # loc[q].ref
    /\ WireRef(req[p]) = S(String(loc[p].ref))
    /\ WireRef(req[q]) = S(String(loc[q].ref))
====
